---- MODULE Spec2Model ----
(***************************************************************************)
(* Outbound-call governance layer of the Bitbucket MCP server:             *)
(*   - the request executor  BitbucketAPI.makeRequest / makeTextRequest    *)
(*   - the rate limiters     TokenBucket / SlidingWindow / MultiTier       *)
(*   - the cache             LRUCache                                      *)
(* Each component has its own specification (SpecExec, SpecSW, SpecTB,     *)
(* SpecMT, SpecCache); the variables of the other components stay as Init  *)
(* left them.  SpecSW and SpecTB follow one tier each, SpecMT the          *)
(* MultiTierRateLimiter with tiers of both kinds, SpecWrap methods         *)
(* decorated with withRateLimit, SpecMgr one CacheManager.                 *)
(***************************************************************************)
EXTENDS Integers, Sequences, FiniteSets, TLC

VARIABLES
  \* ---- request executor (one call of makeRequest) ----
  pc,           \* position of the async function
  retries,      \* requestOptions.retries of the call
  retryDelay,   \* requestOptions.retryDelay of the call, in ms
  attempt,      \* loop variable `attempt`
  lastError,    \* local `lastError`
  timers,       \* attempts whose setTimeout(() => controller.abort()) is pending
  invocations,  \* number of fetch() calls made so far
  waits,        \* the sleeps between attempts started so far: the ms each
                \* setTimeout(resolve, ...) was given
  outcomes,     \* how each finished attempt ended, in order
  result,       \* value the promise resolved with
  thrown,       \* error the promise rejected with
  \* ---- the clock ----
  now,          \* Date.now(), in ms
  \* ---- rate limiters (one MultiTierRateLimiter) ----
  configs,      \* constructor argument: tier name -> RateLimitConfig
  requests,     \* SlidingWindowRateLimiter.requests of each sliding-window tier
  lastCall,     \* the call just made on the limiter and what it returned (none
                \* once time has passed)
  hist,         \* per tier: the checkLimit results since construction or reset
  tokens,       \* TokenBucketRateLimiter.tokens of each token-bucket tier
  lastRefill,   \* TokenBucketRateLimiter.lastRefill
  refillRate,   \* TokenBucketRateLimiter.refillRate
  since,        \* per token-bucket tier: when it was constructed or last reset
  twin,         \* a second MultiTierRateLimiter built from the same configs that
                \* receives the same checkLimit and reset calls at the same
                \* instants, and no getStatus call
  calls,        \* number of calls made on the MultiTierRateLimiter
  \* ---- cache (one LRUCache) ----
  options,      \* LRUCache.options
  cache,        \* LRUCache.cache: key -> CacheEntry
  accessOrder,  \* LRUCache.accessOrder: key -> access counter value
  accessCounter,\* LRUCache.accessCounter
  stats,        \* LRUCache.stats
  cleanupTimer, \* LRUCache.cleanupTimer: the handle held, 0 for undefined
  intervals,    \* the handles of the active setInterval timers of the cache
  destroyed,    \* whether destroy() has been called
  lastOp,       \* the call just made on the cache (none once time has passed)
  recency,      \* the stored keys, least recently set or read (get hit) first
  ncalls,       \* number of calls made on the cache
  fill,         \* the distinct keys set since the cache was empty, while nothing
                \* else was called
  \* ---- cache manager (one CacheManager) ----
  caches,       \* CacheManager.caches: name -> the LRUCache registered under it
  made,         \* every LRUCache constructed by createCache, in order of
                \* construction, with the state of its sweep timer
  mgrOp,        \* the call just made on the manager
  \* ---- one method wrapped by cached(cache, keyGenerator, ttl) ----
  wrapped       \* the ttl it was decorated with, the keys of its calls that
                \* await the original method, the number of times the method
                \* was invoked, and how the latest step of a call went

execVars == <<pc, retries, retryDelay, attempt, lastError, timers,
              invocations, waits, outcomes, result, thrown>>

tbVars == <<tokens, lastRefill, refillRate, since>>

mtVars == <<twin, calls>>

rlVars == <<configs, requests, lastCall, hist, tbVars, mtVars>>

cacheVars == <<options, cache, accessOrder, accessCounter, stats, cleanupTimer,
               intervals, destroyed,
               lastOp, recency, ncalls, fill>>

mgrVars == <<caches, made, mgrOp>>

vars == <<now, execVars, rlVars, cacheVars, mgrVars, wrapped>>

\* what a step of one component leaves alone
notExec == <<now, rlVars, cacheVars, mgrVars, wrapped>>
notMT == <<execVars, cacheVars, mgrVars, wrapped>>
notRL == <<notMT, mtVars>>
notCache == <<execVars, rlVars, mgrVars>>
notMgr == <<now, execVars, rlVars, cacheVars, wrapped>>

-----------------------------------------------------------------------------
(* Request executor: src/unnamed/part_007 586-668 (makeRequest) and        *)
(* 670-752 (makeTextRequest, the same loop with response.text()).          *)

\* bound: largest `retries` option a call is made with (the default is 3)
MaxRetries == 3

\* HTTP statuses the transport answers with: success, client error, server errors
Statuses == {200, 404, 500, 503}

NoError == [kind |-> "none"]
NoResult == [attempt |-> -1]

\* response.ok of node-fetch: status in the range 200-299
ResponseOk(status) == status >= 200 /\ status < 300

\* line 626: response.status >= 400 && response.status < 500
IsClientError(status) == status >= 400 /\ status < 500

\* line 587: retryDelay = 1000
DefaultRetryDelay == 1000

\* the retryDelay options a call is made with: left out, or 250 ms
RetryDelays == {DefaultRetryDelay, 250}

\* mutant of RetryWait: the sleep doubles with every attempt
RetryWait_Doubling(d, a) == d * 2 ^ a

\* lines 636 and 659: the ms given to setTimeout(resolve, retryDelay) after
\* attempt a
RetryWait(d, a) == d

\* mutant of ShouldRetry: the retry test is off by one
ShouldRetry_OffByOne(a, r) == a < r - 1

\* lines 634 and 657: if (attempt < retries)
ShouldRetry(a, r) == a < r

\* mutant of LoopCondition: the last iteration is left out
LoopCondition_Exclusive(a, r) == a < r

\* line 605: the loop condition attempt <= retries
LoopCondition(a, r) == a <= r

\* lines 620-623: the ApiError built from a response that is not ok
StatusError(status, a) == [kind |-> "status", status |-> status, attempt |-> a]

\* mutant of CaughtError: the AbortError is not recognised and is kept as it is
CaughtError_NoTimeoutTag(err, a) == err

\* mutant of CaughtError: the error of an earlier attempt is kept
CaughtError_KeepsFirst(err, a) == IF lastError.kind # "none" THEN lastError ELSE err

\* lines 647-653: what the catch block stores in lastError
CaughtError(err, a) ==
  IF err.kind = "abort"
    THEN [kind |-> "timeout", attempt |-> a]
    ELSE err

\* how an attempt that ended with `err` is classified
OutcomeOf(err) ==
  CASE err.kind = "abort" -> "timeout"
    [] err.kind = "network" -> "network"
    [] err.kind = "parse" -> "parse"
    [] err.kind = "status" /\ IsClientError(err.status) -> "4xx"
    [] OTHER -> "5xx"

\* lines 605-615: loop head, new AbortController, setTimeout, fetch(url, ...)
\* line 667: the throw after the loop
EnterLoop(a, r, le) ==
  IF LoopCondition(a, r)
    THEN /\ pc' = "fetch"
         /\ timers' = timers \cup {a}
         /\ invocations' = invocations + 1
         /\ thrown' = thrown
    ELSE /\ pc' = "rejected"
         /\ timers' = timers
         /\ invocations' = invocations
         /\ thrown' = IF le.kind # "none" THEN le ELSE [kind |-> "exhausted"]

\* lines 646-664: the catch block, entered with the error `err`
Catch(err) ==
  /\ lastError' = CaughtError(err, attempt)
  /\ outcomes' = Append(outcomes, OutcomeOf(err))
  /\ IF ShouldRetry(attempt, retries)
       THEN /\ pc' = "delay"
            /\ waits' = Append(waits, RetryWait(retryDelay, attempt))
            /\ thrown' = thrown
       ELSE /\ pc' = "rejected"
            /\ waits' = waits
            /\ thrown' = CaughtError(err, attempt)

\* lines 586-615: a call starts and reaches its first fetch
MakeRequest(r) ==
  /\ UNCHANGED notExec
  /\ pc = "idle"
  /\ retries' = r
  /\ retryDelay' \in RetryDelays
  /\ attempt' = 0
  /\ lastError' = NoError
  /\ EnterLoop(0, r, NoError)
  /\ UNCHANGED <<waits, outcomes, result>>

\* lines 611-641: fetch resolves with a response before the timer fires
FetchResponds(status) ==
  /\ UNCHANGED notExec
  /\ pc = "fetch"
  /\ attempt \in timers
  /\ timers' = timers \ {attempt}                    \* clearTimeout(timeoutId)
  /\ IF ResponseOk(status)
       THEN /\ pc' = "body"
            /\ UNCHANGED <<lastError, outcomes, waits, thrown, result>>
       ELSE IF IsClientError(status)
         THEN /\ Catch(StatusError(status, attempt))   \* throw error, inside try
              /\ UNCHANGED result
         ELSE IF ShouldRetry(attempt, retries)
           THEN /\ lastError' = StatusError(status, attempt)
                /\ outcomes' = Append(outcomes, "5xx")
                /\ pc' = "delay"
                /\ waits' = Append(waits, RetryWait(retryDelay, attempt))
                /\ UNCHANGED <<result, thrown>>
           ELSE /\ Catch(StatusError(status, attempt)) \* throw error, inside try
                /\ UNCHANGED result
  /\ UNCHANGED <<retries, retryDelay, attempt, invocations>>

\* line 611: fetch rejects with a network-level error (no status)
FetchRejects ==
  /\ UNCHANGED notExec
  /\ pc = "fetch"
  /\ attempt \in timers
  /\ Catch([kind |-> "network", attempt |-> attempt])
  /\ UNCHANGED <<retries, retryDelay, attempt, timers, invocations, result>>

\* line 609: a pending timer fires and calls controller.abort() of its attempt
TimeoutFires(i) ==
  /\ UNCHANGED notExec
  /\ i \in timers
  /\ timers' = timers \ {i}
  /\ IF i = attempt /\ pc = "fetch"
       THEN Catch([kind |-> "abort", attempt |-> attempt])
       ELSE UNCHANGED <<pc, lastError, outcomes, waits, thrown>>
  /\ UNCHANGED <<retries, retryDelay, attempt, invocations, result>>

\* line 644 (728): response.json() / response.text() delivers the body of the
\* response of this attempt, which is returned
BodyRead ==
  /\ UNCHANGED notExec
  /\ pc = "body"
  /\ pc' = "resolved"
  /\ result' = [attempt |-> attempt]
  /\ outcomes' = Append(outcomes, "ok")
  /\ UNCHANGED <<retries, retryDelay, attempt, lastError, timers,
                 invocations, waits, thrown>>

\* line 644 (728): reading the body rejects (invalid JSON, broken stream)
BodyFails ==
  /\ UNCHANGED notExec
  /\ pc = "body"
  /\ Catch([kind |-> "parse", attempt |-> attempt])
  /\ UNCHANGED <<retries, retryDelay, attempt, timers, invocations, result>>

\* lines 636-637 and 659-660: the retryDelay sleep ends, `continue`, attempt++
DelayElapsed ==
  /\ UNCHANGED notExec
  /\ pc = "delay"
  /\ attempt' = attempt + 1
  /\ EnterLoop(attempt + 1, retries, lastError)
  /\ UNCHANGED <<retries, retryDelay, lastError, waits, outcomes, result>>

ExecInit ==
  /\ pc = "idle"
  /\ retries = 0
  /\ retryDelay = DefaultRetryDelay
  /\ attempt = 0
  /\ lastError = NoError
  /\ timers = {}
  /\ invocations = 0
  /\ waits = <<>>
  /\ outcomes = <<>>
  /\ result = NoResult
  /\ thrown = NoError

ExecNext ==
  \/ \E r \in 0..MaxRetries : MakeRequest(r)
  \/ \E s \in Statuses : FetchResponds(s)
  \/ FetchRejects
  \/ \E i \in 0..MaxRetries : TimeoutFires(i)
  \/ BodyRead
  \/ BodyFails
  \/ DelayElapsed


-----------------------------------------------------------------------------
(* Arithmetic of the JavaScript `number`s the token bucket computes with   *)
(* (src/src/rate-limiting.ts 21-24, 30, 40, 43, 47, 80, 82).               *)

\* A number (IEEE-754 binary64) that is not negative is held exactly, as the
\* integer value * 2^FracBits written in limbs of LimbBits bits, least
\* significant first.  An operation computes the exact result and rounds it to
\* 53 significant bits, to nearest and ties to even, as the hardware does.
LimbBits == 16
LimbBase == 2 ^ LimbBits
FracLimbs == 5
Limbs == 1..(FracLimbs + 2)
FracBits == FracLimbs * LimbBits
Significand == 53

\* F applied to the value of e, with e evaluated once
Once(e, F(_)) == CHOOSE y \in {F(it) : it \in {e}} : TRUE

DZero == [i \in Limbs |-> 0]

\* the double of an integer 0 <= n < 2^31
DFromInt(n) ==
  Once(n, LAMBDA m :
    [i \in Limbs |-> IF i = FracLimbs + 1 THEN m % LimbBase
                     ELSE IF i = FracLimbs + 2 THEN m \div LimbBase
                     ELSE 0])

RECURSIVE DCarry(_, _, _)
DCarry(a, b, i) ==
  IF i = 1 THEN 0 ELSE (a[i-1] + b[i-1] + DCarry(a, b, i-1)) \div LimbBase

\* exact a + b
DSum(a, b) ==
  Once(<<a, b>>, LAMBDA p :
    [i \in Limbs |-> (p[1][i] + p[2][i] + DCarry(p[1], p[2], i)) % LimbBase])

RECURSIVE DBorrow(_, _, _)
DBorrow(a, b, i) ==
  IF i = 1 THEN 0
  ELSE IF a[i-1] - b[i-1] - DBorrow(a, b, i-1) < 0 THEN 1 ELSE 0

\* exact a - b, for a >= b
DDiff(a, b) ==
  Once(<<a, b>>, LAMBDA p :
    [i \in Limbs |->
       (p[1][i] - p[2][i] - DBorrow(p[1], p[2], i) + LimbBase) % LimbBase])

RECURSIVE DGeqFrom(_, _, _)
DGeqFrom(a, b, i) ==
  IF i = 0 THEN TRUE
  ELSE IF a[i] > b[i] THEN TRUE
  ELSE IF a[i] < b[i] THEN FALSE
  ELSE DGeqFrom(a, b, i-1)

\* a difference that fell below zero: DDiff holds it modulo
\* LimbBase^(FracLimbs + 2), with the top bit set
DNegative(a) == a[FracLimbs + 2] >= LimbBase \div 2

\* a >= b
DGeq(a, b) == Once(<<a, b>>, LAMBDA p : DGeqFrom(p[1], p[2], FracLimbs + 2))

RECURSIVE DMulCarry(_, _, _)
DMulCarry(a, n, i) ==
  IF i = 1 THEN 0 ELSE (a[i-1] * n + DMulCarry(a, n, i-1)) \div LimbBase

\* exact a * n for an integer 0 <= n < 2^15
DTimes(a, n) ==
  Once(<<a, n>>, LAMBDA p :
    [i \in Limbs |-> (p[1][i] * p[2] + DMulCarry(p[1], p[2], i)) % LimbBase])

\* number of significant bits of the integer v < LimbBase
BitsOf(v) == CHOOSE k \in 0..LimbBits : v < 2^k /\ (k = 0 \/ 2^(k-1) <= v)

\* number of significant bits of a
DBitLen(a) ==
  Once(a, LAMBDA v :
    IF v = DZero THEN 0
    ELSE Once(CHOOSE i \in Limbs : v[i] # 0 /\ \A j \in Limbs : j > i => v[j] = 0,
              LAMBDA top : (top - 1) * LimbBits + BitsOf(v[top])))

\* bit k (from 0) of a
DBit(a, k) ==
  Once(k, LAMBDA j : (a[j \div LimbBits + 1] \div 2^(j % LimbBits)) % 2)

\* the bits of a below bit k are all zero
DLowZero(a, k) ==
  Once(<<a, k>>, LAMBDA p :
    \A i \in Limbs :
      /\ i <= p[2] \div LimbBits => p[1][i] = 0
      /\ i = p[2] \div LimbBits + 1 => p[1][i] % 2^(p[2] % LimbBits) = 0)

DLimb(a, i) == Once(i, LAMBDA j : IF j \in Limbs THEN a[j] ELSE 0)

\* a * 2^k, and the integer part of a / 2^k
DShl(a, k) ==
  Once(<<a, k \div LimbBits, k % LimbBits>>, LAMBDA p :
    [i \in Limbs |->
       ((DLimb(p[1], i - p[2]) * 2^p[3]) % LimbBase)
         + (DLimb(p[1], i - p[2] - 1) \div 2^(LimbBits - p[3]))])

DShr(a, k) ==
  Once(<<a, k \div LimbBits, k % LimbBits>>, LAMBDA p :
    [i \in Limbs |->
       (DLimb(p[1], i + p[2]) \div 2^p[3])
         + ((DLimb(p[1], i + p[2] + 1) % 2^p[3]) * 2^(LimbBits - p[3]))])

\* 2^k as an integer in limbs
DPow2(k) ==
  Once(k, LAMBDA j :
    [i \in Limbs |-> IF i = j \div LimbBits + 1 THEN 2^(j % LimbBits) ELSE 0])

\* a rounded at bit d: up when the bit below is set and either a lower bit
\* or bit d is (to nearest, ties to even)
DRoundAt(a, d) ==
  Once(DShl(DShr(a, d), d), LAMBDA t :
    IF DBit(a, d-1) = 1 /\ (~DLowZero(a, d-1) \/ DBit(a, d) = 1)
    THEN DSum(t, DPow2(d))
    ELSE t)

\* a rounded to 53 significant bits
DRound(a) ==
  Once(a, LAMBDA v :
    Once(DBitLen(v), LAMBDA len :
      IF len <= Significand THEN v ELSE DRoundAt(v, len - Significand)))

\* number of zero bits below the lowest set bit of a # 0
DTrailing(a) ==
  Once(a, LAMBDA v :
    CHOOSE k \in 0..(DBitLen(v) - 1) : DBit(v, k) = 1 /\ DLowZero(v, k))

\* the significant bits of a # 0: a = DOdd(a) * 2^DTrailing(a)
DOdd(a) == Once(a, LAMBDA v : DShr(v, DTrailing(v)))

\* long division in digits of DigitBits bits; QuotDigits digits give the
\* quotient its 56 or 57 bits, enough to round at 53
DigitBits == 8
QuotDigits == 8
QuotBits == DigitBits * (QuotDigits - 1)

\* digit k (from 0) of the integer n
DDigitOf(n, k) ==
  Once(k * DigitBits, LAMBDA j :
    (n[j \div LimbBits + 1] \div 2^(j % LimbBits)) % 2^DigitBits)

\* the largest g in lo .. lo + 2^width - 1 with d * g <= r, by bisection
RECURSIVE DFit(_, _, _, _)
DFit(r, d, lo, width) ==
  IF width = 0 THEN lo
  ELSE IF DGeq(r, DTimes(d, lo + 2^(width - 1)))
       THEN DFit(r, d, lo + 2^(width - 1), width - 1)
       ELSE DFit(r, d, lo, width - 1)

\* one step of the division by d: the remainder with the next digit of the
\* dividend brought down, the quotient digit that fits, and what is left
DDivDigit(q, r, d) ==
  Once(DFit(r, d, 0, DigitBits), LAMBDA g :
    [q |-> DSum(DTimes(q, 2^DigitBits), [DZero EXCEPT ![1] = g]),
     r |-> DDiff(r, DTimes(d, g))])

DDivStep(prev, digit, d) ==
  Once(prev, LAMBDA p :
    Once(DSum(DTimes(p.r, 2^DigitBits), [DZero EXCEPT ![1] = digit]),
         LAMBDA r : DDivDigit(p.q, r, d)))

\* quotient and remainder of n by d once the digits of n from the top down to
\* digit k are brought down; what lies above the digits is less than d
RECURSIVE DDivFrom(_, _, _)
DDivFrom(n, d, k) ==
  IF k >= QuotDigits
  THEN [q |-> DZero, r |-> DShr(n, QuotDigits * DigitBits)]
  ELSE DDivStep(DDivFrom(n, d, k + 1), DDigitOf(n, k), d)

\* an inexact quotient carries a sticky last bit into the rounding
DSticky(qr) ==
  Once(qr, LAMBDA p :
    DRound(IF p.r = DZero THEN p.q ELSE [p.q EXCEPT ![1] = (@ \div 2) * 2 + 1]))

DScale(a, e) == Once(e, LAMBDA sh : IF sh >= 0 THEN DShl(a, sh) ELSE DShr(a, 0 - sh))

\* A * 2^ta / (B * 2^tb) for odd A and B: the quotient of A * 2^s by B is
\* taken for the s that gives it 56 or 57 bits, rounded, and scaled back
DQuotOdd(A, ta, B, tb, s) ==
  Once(DShl(A, s), LAMBDA n :
    DScale(DSticky(DDivFrom(n, B, 0)), ta - tb - s + FracBits))

\* a / b rounded, for a # 0 and b # 0
DQuot(a, b) ==
  Once(<<DOdd(a), DTrailing(a), DOdd(b), DTrailing(b)>>, LAMBDA p :
    Once(QuotBits + DBitLen(p[3]) - DBitLen(p[1]), LAMBDA s :
      DQuotOdd(p[1], p[2], p[3], p[4], s)))

DPlus(a, b) == DRound(DSum(a, b))
DMinus(a, b) == DRound(DDiff(a, b))
DMul(a, n) == DRound(DTimes(a, n))
DMin(a, b) == Once(<<a, b>>, LAMBDA p : IF DGeq(p[1], p[2]) THEN p[2] ELSE p[1])

\* Math.floor and Math.ceil of a value below 2^31
DFloor(a) == Once(a, LAMBDA v : v[FracLimbs + 1] + v[FracLimbs + 2] * LimbBase)
DCeil(a) ==
  Once(a, LAMBDA v :
    v[FracLimbs + 1] + v[FracLimbs + 2] * LimbBase
      + (IF \A i \in 1..FracLimbs : v[i] = 0 THEN 0 ELSE 1))


-----------------------------------------------------------------------------
(* Rate limiters: src/src/rate-limiting.ts                                 *)

\* bound: checkLimit calls followed per tier beyond its capacity, between resets
MaxExtraChecks == 2

\* bound: the clock is followed for this many windows of the widest tier
MaxWindows == 2

\* bound: windows up to this many ms are explored in steps of 1 ms, longer
\* (production-size) windows in steps of one window
MaxFineWindow == 8

SlidingWindow == "sliding-window"
TokenBucket == "token-bucket"

\* line 170: config.type || 'token-bucket'
LimiterType(cfg) == IF cfg.type = SlidingWindow THEN SlidingWindow ELSE TokenBucket

Tiers == DOMAIN configs
SWTiers == {t \in Tiers : LimiterType(configs[t]) = SlidingWindow}

\* lines 288-306: sliding-window tiers; `write` and `expensive` with the
\* capacity and the window scaled down, a caller-defined tier of capacity 1,
\* and `burst` as createDefaultRateLimitConfig sets it
SWConfigChoices ==
  { [t \in {"write"} |->
       [maxRequests |-> 2, windowMs |-> 3, type |-> SlidingWindow]],
    [t \in {"expensive"} |->
       [maxRequests |-> 3, windowMs |-> 2, type |-> SlidingWindow]],
    [t \in {"single"} |->
       [maxRequests |-> 1, windowMs |-> 2, type |-> SlidingWindow]],
    [t \in {"burst"} |->
       [maxRequests |-> 60, windowMs |-> 60000, type |-> SlidingWindow]] }

\* no limiter constructed
NoTiers == [t \in {} |-> [maxRequests |-> 0, windowMs |-> 0, type |-> TokenBucket]]

\* Math.min(...this.requests), lines 118 and 157, of a non-empty array
SeqMin(reqs) ==
  CHOOSE m \in {reqs[i] : i \in 1..Len(reqs)} :
    \A i \in 1..Len(reqs) : m <= reqs[i]

\* mutant of SWInWindow: a timestamp exactly one window old is kept
SWInWindow_Inclusive(timestamp, windowStart) == timestamp >= windowStart

\* mutant of SWInWindow: a timestamp is dropped one ms before it leaves the
\* window
SWInWindow_OneMsEarly(timestamp, windowStart) == timestamp > windowStart + 1

\* line 108: timestamp > windowStart
SWInWindow(timestamp, windowStart) == timestamp > windowStart

\* lines 105-108: this.requests.filter(timestamp => timestamp > windowStart)
SWFilter(reqs, t, windowMs) ==
  SelectSeq(reqs, LAMBDA timestamp : SWInWindow(timestamp, t - windowMs))

\* mutant of SWHasRoom: one request more than maxRequests is admitted
SWHasRoom_OneMore(len, maxRequests) == len <= maxRequests

\* line 110: this.requests.length < this.config.maxRequests
SWHasRoom(len, maxRequests) == len < maxRequests

\* lines 153-159: SlidingWindowRateLimiter.getNextResetTime
SWNextResetTime(reqs, t, windowMs) ==
  IF Len(reqs) = 0 THEN t + windowMs ELSE SeqMin(reqs) + windowMs

\* mutant of SWRetryAfter: the wait is measured from the newest admission
SWRetryAfter_FromNewest(reqs, t, windowMs) ==
  LET r == reqs[Len(reqs)] + windowMs - t IN IF r > 0 THEN r ELSE 0

\* lines 118-124: Math.max(0, oldestRequest + windowMs - now)
SWRetryAfter(reqs, t, windowMs) ==
  LET r == SeqMin(reqs) + windowMs - t IN IF r > 0 THEN r ELSE 0

\* lines 103-127: the array SlidingWindowRateLimiter.checkLimit leaves behind
SWRequestsAfterCheck(reqs, t, cfg) ==
  LET kept == SWFilter(reqs, t, cfg.windowMs)
  IN  IF SWHasRoom(Len(kept), cfg.maxRequests) THEN Append(kept, t) ELSE kept

\* lines 103-127: the RateLimitResult SlidingWindowRateLimiter.checkLimit returns
SWCheckResult(reqs, t, cfg) ==
  LET kept == SWFilter(reqs, t, cfg.windowMs)
      after == SWRequestsAfterCheck(reqs, t, cfg)
  IN  IF SWHasRoom(Len(kept), cfg.maxRequests)
        THEN [allowed |-> TRUE,
              remaining |-> cfg.maxRequests - Len(after),
              resetTime |-> SWNextResetTime(after, t, cfg.windowMs)]
        ELSE [allowed |-> FALSE,
              remaining |-> 0,
              resetTime |-> SWNextResetTime(after, t, cfg.windowMs),
              retryAfter |-> SWRetryAfter(after, t, cfg.windowMs)]

\* the checks followed per tier between two resets
MaxChecks(tier) == configs[tier].maxRequests + MaxExtraChecks

\* lines 182-188 with 103-127: MultiTierRateLimiter.checkLimit on a
\* sliding-window tier
SWCheckLimit(tier) ==
  /\ UNCHANGED notRL
  /\ tier \in SWTiers
  /\ Len(hist[tier]) < MaxChecks(tier)
  /\ LET res == SWCheckResult(requests[tier], now, configs[tier])
     IN  /\ requests' = [requests EXCEPT
                           ![tier] = SWRequestsAfterCheck(@, now, configs[tier])]
         /\ lastCall' = [op |-> "checkLimit", tier |-> tier, at |-> now, res |-> res]
         /\ hist' = [hist EXCEPT ![tier] = Append(@, [at |-> now, res |-> res])]
  /\ UNCHANGED <<now, configs, tbVars>>

\* lines 132-144: SlidingWindowRateLimiter.getStatus
SWGetStatus(tier) ==
  /\ UNCHANGED notRL
  /\ tier \in SWTiers
  /\ LET kept == SWFilter(requests[tier], now, configs[tier].windowMs)
     IN  /\ requests' = [requests EXCEPT ![tier] = kept]
         /\ lastCall' =
              [op |-> "getStatus", tier |-> tier, at |-> now,
               res |-> [requestCount |-> Len(kept),
                        remaining |-> configs[tier].maxRequests - Len(kept),
                        resetTime |->
                          SWNextResetTime(kept, now, configs[tier].windowMs)]]
  /\ UNCHANGED <<now, configs, hist, tbVars>>

\* lines 208-213 with 149-151: MultiTierRateLimiter.reset(tier) on a
\* sliding-window tier
SWReset(tier) ==
  /\ UNCHANGED notRL
  /\ tier \in SWTiers
  /\ requests' = [requests EXCEPT ![tier] = <<>>]
  /\ hist' = [hist EXCEPT ![tier] = <<>>]
  /\ lastCall' = [op |-> "reset", tier |-> tier, at |-> now]
  /\ UNCHANGED <<now, configs, tbVars>>

\* lines 274-285: token-bucket tiers; `default` and `read` with the capacity
\* and the window scaled down, a caller-defined tier of one request per
\* 49 ms that leaves `type` out, and one of one request per 161 ms
Undefined == "undefined"

TBTiers == {t \in Tiers : LimiterType(configs[t]) = TokenBucket}

TBConfigChoices ==
  { [t \in {"default"} |->
       [maxRequests |-> 2, windowMs |-> 6, type |-> TokenBucket]],
    [t \in {"read"} |->
       [maxRequests |-> 3, windowMs |-> 6, type |-> TokenBucket]],
    [t \in {"slow"} |->
       [maxRequests |-> 1, windowMs |-> 49, type |-> Undefined]],
    [t \in {"sparse"} |->
       [maxRequests |-> 1, windowMs |-> 161, type |-> TokenBucket]] }

\* mutant of TBRefillRate: the bucket refills twice per window
TBRefillRate_TwicePerWindow(cfg) ==
  DQuot(DFromInt(2 * cfg.maxRequests), DFromInt(cfg.windowMs))

\* line 30: this.refillRate = this.maxTokens / config.windowMs
TBRefillRate(cfg) == DQuot(DFromInt(cfg.maxRequests), DFromInt(cfg.windowMs))

\* mutant of TBRefillTokens: the sum is not capped at maxTokens
TBRefillTokens_Uncapped(tok, last, rate, maxTokens, t) ==
  DPlus(tok, DMul(rate, t - last))

\* lines 77-84: the tokens refillTokens leaves at time t
TBRefillTokens(tok, last, rate, maxTokens, t) ==
  DMin(DFromInt(maxTokens), DPlus(tok, DMul(rate, t - last)))

\* line 39: this.tokens >= 1
TBHasToken(tok) == DGeq(tok, DFromInt(1))

\* line 47: Math.ceil(1 / this.refillRate)
TBRetryAfter(rate) == DCeil(DQuot(DFromInt(1), rate))

\* mutant of TBTokensAfterCheck: an allowed check takes no token
TBTokensAfterCheck_NoneTaken(tok) == tok

\* lines 36-55: the tokens checkLimit leaves, given the refilled amount
TBTokensAfterCheck(tok) ==
  IF TBHasToken(tok) THEN DMinus(tok, DFromInt(1)) ELSE tok

\* mutant of TBCheckResult: `remaining` is floored before the token is taken
TBCheckResult_FloorBefore(tok, rate) ==
  IF TBHasToken(tok)
    THEN [allowed |-> TRUE, remaining |-> DFloor(tok)]
    ELSE [allowed |-> FALSE, remaining |-> 0, retryAfter |-> TBRetryAfter(rate)]

\* lines 36-55: the RateLimitResult checkLimit returns, given the refilled
\* amount (resetTime, a number no later call reads, is left out)
TBCheckResult(tok, rate) ==
  IF TBHasToken(tok)
    THEN [allowed |-> TRUE, remaining |-> DFloor(TBTokensAfterCheck(tok))]
    ELSE [allowed |-> FALSE, remaining |-> 0, retryAfter |-> TBRetryAfter(rate)]

\* the refilled amount of a tier at this instant
TBRefilled(tier) ==
  TBRefillTokens(tokens[tier], lastRefill[tier], refillRate[tier],
                 configs[tier].maxRequests, now)

\* lines 182-188 with 36-55: MultiTierRateLimiter.checkLimit on a token-bucket
\* tier
TBCheckLimit(tier) ==
  /\ UNCHANGED notRL
  /\ tier \in TBTiers
  /\ Len(hist[tier]) < MaxChecks(tier)
  /\ \E tok \in {TBRefilled(tier)} :
       \E res \in {TBCheckResult(tok, refillRate[tier])} :
         /\ tokens' = [tokens EXCEPT ![tier] = TBTokensAfterCheck(tok)]
         /\ lastCall' = [op |-> "checkLimit", tier |-> tier, at |-> now, res |-> res]
         /\ hist' = [hist EXCEPT ![tier] = Append(@, [at |-> now, res |-> res])]
  /\ lastRefill' = [lastRefill EXCEPT ![tier] = now]
  /\ UNCHANGED <<now, configs, requests, refillRate, since>>

\* lines 60-67: TokenBucketRateLimiter.getStatus
TBGetStatus(tier) ==
  /\ UNCHANGED notRL
  /\ tier \in TBTiers
  /\ \E tok \in {TBRefilled(tier)} :
       /\ tokens' = [tokens EXCEPT ![tier] = tok]
       /\ lastCall' = [op |-> "getStatus", tier |-> tier, at |-> now,
                       res |-> [tokens |-> tok, remaining |-> DFloor(tok)]]
  /\ lastRefill' = [lastRefill EXCEPT ![tier] = now]
  /\ UNCHANGED <<now, configs, requests, hist, refillRate, since>>

\* lines 208-213 with 72-75: MultiTierRateLimiter.reset(tier) on a
\* token-bucket tier
TBReset(tier) ==
  /\ UNCHANGED notRL
  /\ tier \in TBTiers
  /\ tokens' = [tokens EXCEPT ![tier] = DFromInt(configs[tier].maxRequests)]
  /\ lastRefill' = [lastRefill EXCEPT ![tier] = now]
  /\ since' = [since EXCEPT ![tier] = now]
  /\ hist' = [hist EXCEPT ![tier] = <<>>]
  /\ lastCall' = [op |-> "reset", tier |-> tier, at |-> now]
  /\ UNCHANGED <<now, configs, requests, refillRate>>

\* the widest window configured
MaxWindow ==
  CHOOSE w \in {configs[t].windowMs : t \in Tiers} :
    \A t \in Tiers : configs[t].windowMs <= w

\* the step of the clock: 1 ms, or one window for production-size windows
ClockStep == IF MaxWindow <= MaxFineWindow THEN 1 ELSE MaxWindow

\* the last instant explored: one step for a production-size window; else one
\* window and one ms for a token bucket (left alone for a window it is full
\* again), MaxWindows windows and one ms for a sliding window
Horizon ==
  IF MaxWindow > MaxFineWindow THEN ClockStep
  ELSE IF TBTiers # {} THEN MaxWindow + 1
  ELSE MaxWindows * MaxWindow + 1

\* Date.now() moves on between two calls
Advance ==
  /\ UNCHANGED notRL
  /\ Tiers # {}
  /\ now + ClockStep <= Horizon
  /\ now' = now + ClockStep
  /\ lastCall' = [op |-> "none"]
  /\ UNCHANGED <<configs, requests, hist, tbVars>>

\* lines 26-31: the TokenBucketRateLimiter constructed for each token-bucket
\* tier
TBInit ==
  /\ tokens = [t \in {u \in DOMAIN configs :
                        LimiterType(configs[u]) = TokenBucket} |->
                DFromInt(configs[t].maxRequests)]
  /\ lastRefill = [t \in DOMAIN tokens |-> now]
  /\ refillRate = [t \in DOMAIN tokens |-> TBRefillRate(configs[t])]
  /\ since = [t \in DOMAIN tokens |-> now]

\* lines 168-177 and 96-98: the MultiTierRateLimiter constructed from one of
\* `choices`
RLInit(choices) ==
  /\ now = 0
  /\ configs \in choices
  /\ requests = [t \in {u \in DOMAIN configs :
                          LimiterType(configs[u]) = SlidingWindow} |-> <<>>]
  /\ lastCall = [op |-> "none"]
  /\ hist = [t \in DOMAIN configs |-> <<>>]
  /\ TBInit
  /\ twin = [requests |-> requests, tokens |-> tokens,
             lastRefill |-> lastRefill,
             allowed |-> [t \in DOMAIN configs |-> <<>>]]
  /\ calls = 0


SWNext ==
  \/ \E t \in Tiers : SWCheckLimit(t)
  \/ \E t \in Tiers : SWGetStatus(t)
  \/ \E t \in Tiers : SWReset(t)
  \/ Advance

TBNext ==
  \/ \E t \in Tiers : TBCheckLimit(t)
  \/ \E t \in Tiers : TBGetStatus(t)
  \/ \E t \in Tiers : TBReset(t)
  \/ Advance


-----------------------------------------------------------------------------
(* Cache: src/unnamed/part_007 30-285 (LRUCache)                           *)

\* bound: calls followed on one cache
MaxCalls == 3

\* bound: the last instant of the cache's clock that is explored
CacheHorizon == 2

\* keys the callers use; the empty string is a string like any other
Keys == {"", "a", "b"}

\* values stored (get returns null for a miss, so null is not among them)
Values == {"v1", "v2"}
Null == "null"

\* the ttl argument of set: 0 stands for an omitted (or zero) ttl
Ttls == {0, 1}

\* lines 12-16: the CacheOptions a cache is constructed with
OptionChoices ==
  { [maxSize |-> m, defaultTtl |-> 2, cleanupInterval |-> ci] :
      m \in {1, 2}, ci \in {0, 1} }

\* JavaScript truthiness of a string: if (lruKey)
Truthy(str) == str # ""

\* f without the key k (Map.delete)
Without(f, k) == [x \in DOMAIN f \ {k} |-> f[x]]

\* f with k mapped to v (Map.set)
With(f, k, v) == [x \in DOMAIN f \cup {k} |-> IF x = k THEN v ELSE f[x]]

\* mutant of Expired: the ttl is taken to be in seconds
Expired_TtlInSeconds(entry, t) == t > entry.timestamp + entry.ttl * 1000

\* mutant of Expired: the ttl is subtracted instead of added
Expired_SignSlip(entry, t) == t > entry.timestamp - entry.ttl

\* mutant of Expired: an entry expires at the instant its ttl has passed
Expired_AtBoundary(entry, t) == t >= entry.timestamp + entry.ttl

\* lines 70, 129, 222: now > entry.timestamp + entry.ttl
Expired(entry, t) == t > entry.timestamp + entry.ttl

\* line 94: ttl || this.options.defaultTtl
EffectiveTtl(ttl) == IF ttl # 0 THEN ttl ELSE options.defaultTtl

\* lines 243-251: the key with the smallest access counter
LRUKey(ao) == CHOOSE k \in DOMAIN ao : \A j \in DOMAIN ao : ao[k] <= ao[j]

\* lines 240-257: evictLRU, as the pair <<cache, accessOrder>> it leaves
EvictLRU(c, ao) ==
  IF DOMAIN ao = {}
    THEN <<c, ao>>
    ELSE IF Truthy(LRUKey(ao))
      THEN <<Without(c, LRUKey(ao)), Without(ao, LRUKey(ao))>>
      ELSE <<c, ao>>

\* mutant of AtCapacity: a key that is already stored counts as a new one
AtCapacity_AnyKey(c, key) == Cardinality(DOMAIN c) >= options.maxSize

\* line 99: this.cache.size >= this.options.maxSize && !this.cache.has(key)
AtCapacity(c, key) == Cardinality(DOMAIN c) >= options.maxSize /\ key \notin DOMAIN c

\* one more call on the cache, while calls are followed
Called == ncalls < MaxCalls /\ ncalls' = ncalls + 1

\* a run of sets of distinct keys is over
Spoiled == [ok |-> FALSE, keys |-> <<>>]

\* a call other than set is made
CalledOther == Called /\ fill' = Spoiled

\* the sequence seq without the element k
SeqWithout(seq, k) == SelectSeq(seq, LAMBDA x : x # k)

\* k becomes the most recently used key of the sequence seq
Touched(seq, k) == Append(SeqWithout(seq, k), k)

\* the keys of seq that are still stored in the cache c
StillIn(seq, c) == SelectSeq(seq, LAMBDA x : x \in DOMAIN c)

\* whether the call before this one was set(key, ...), at this very instant,
\* and what it stored
JustSet(key) ==
  IF lastOp.op = "set" /\ lastOp.key = key
    THEN [set |-> TRUE, data |-> lastOp.data, ttl |-> lastOp.ttl,
          full |-> lastOp.full]
    ELSE [set |-> FALSE]

\* line 60: what this.cache.get(key) finds, as the callers of get see it later
Found(key) ==
  IF key \in DOMAIN cache
    THEN [stored |-> TRUE, timestamp |-> cache[key].timestamp,
          ttl |-> cache[key].ttl]
    ELSE [stored |-> FALSE]

\* whether the call before this one was get(key), at this very instant, and
\* what it found and returned
JustGot(key) ==
  IF lastOp.op = "get" /\ lastOp.key = key
    THEN [got |-> TRUE, was |-> lastOp.was, res |-> lastOp.res]
    ELSE [got |-> FALSE]

\* lines 58-85: LRUCache.get
Get(key) ==
  /\ UNCHANGED notCache
  /\ CalledOther
  /\ IF key \notin DOMAIN cache
       THEN /\ stats' = [stats EXCEPT !.totalRequests = @ + 1, !.misses = @ + 1]
            /\ lastOp' = [op |-> "get", key |-> key, res |-> Null,
                          prev |-> JustSet(key), was |-> Found(key)]
            /\ UNCHANGED <<cache, accessOrder, accessCounter, recency>>
       ELSE IF Expired(cache[key], now)
         THEN /\ cache' = Without(cache, key)
              /\ accessOrder' = Without(accessOrder, key)
              /\ stats' = [stats EXCEPT !.totalRequests = @ + 1,
                                        !.misses = @ + 1,
                                        !.cacheSize = Cardinality(DOMAIN cache')]
              /\ lastOp' = [op |-> "get", key |-> key, res |-> Null,
                            prev |-> JustSet(key), was |-> Found(key)]
              /\ recency' = SeqWithout(recency, key)
              /\ UNCHANGED accessCounter
         ELSE /\ accessCounter' = accessCounter + 1
              /\ accessOrder' = With(accessOrder, key, accessCounter + 1)
              /\ stats' = [stats EXCEPT !.totalRequests = @ + 1, !.hits = @ + 1]
              /\ lastOp' = [op |-> "get", key |-> key,
                            res |-> cache[key].data, prev |-> JustSet(key),
                            was |-> Found(key)]
              /\ recency' = Touched(recency, key)
              /\ UNCHANGED cache
  /\ UNCHANGED <<options, cleanupTimer, intervals, destroyed, now>>

\* lines 90-106: LRUCache.set
Set(key, data, ttl) ==
  /\ UNCHANGED notCache
  /\ Called
  /\ fill' = IF fill.ok /\ key \notin {fill.keys[i] : i \in 1..Len(fill.keys)}
               THEN [ok |-> TRUE, keys |-> Append(fill.keys, key)]
               ELSE Spoiled
  /\ LET entry == [data |-> data, timestamp |-> now, ttl |-> EffectiveTtl(ttl)]
         ev == IF AtCapacity(cache, key)
                 THEN EvictLRU(cache, accessOrder)
                 ELSE <<cache, accessOrder>>
     IN  /\ cache' = With(ev[1], key, entry)
         /\ accessCounter' = accessCounter + 1
         /\ accessOrder' = With(ev[2], key, accessCounter + 1)
         /\ stats' = [stats EXCEPT !.cacheSize = Cardinality(DOMAIN cache')]
         /\ lastOp' = [op |-> "set", key |-> key, data |-> data,
                       ttl |-> ttl, full |-> AtCapacity(cache, key),
                       present |-> key \in DOMAIN cache,
                       evicted |-> DOMAIN cache \ DOMAIN cache',
                       oldest |-> IF recency = <<>> THEN {} ELSE {Head(recency)}]
         /\ recency' = Touched(StillIn(recency, cache'), key)
  /\ UNCHANGED <<options, cleanupTimer, intervals, destroyed, now>>

\* lines 111-118: LRUCache.delete
Delete(key) ==
  /\ UNCHANGED notCache
  /\ CalledOther
  /\ IF key \in DOMAIN cache
       THEN /\ cache' = Without(cache, key)
            /\ accessOrder' = Without(accessOrder, key)
            /\ stats' = [stats EXCEPT !.cacheSize = Cardinality(DOMAIN cache')]
       ELSE UNCHANGED <<cache, accessOrder, stats>>
  /\ recency' = SeqWithout(recency, key)
  /\ lastOp' = [op |-> "delete", key |-> key,
                res |-> key \in DOMAIN cache]
  /\ UNCHANGED <<options, cleanupTimer, intervals, destroyed, now, accessCounter>>

\* mutant of Has: a has of a stored key counts as an access, as get does
Has_Touching(key) ==
  /\ UNCHANGED notCache
  /\ CalledOther
  /\ IF key \in DOMAIN cache /\ Expired(cache[key], now)
       THEN /\ cache' = Without(cache, key)
            /\ accessOrder' = Without(accessOrder, key)
            /\ stats' = [stats EXCEPT !.cacheSize = Cardinality(DOMAIN cache')]
       ELSE /\ accessOrder' = IF key \in DOMAIN cache
                                THEN With(accessOrder, key, accessCounter + 1)
                                ELSE accessOrder
            /\ UNCHANGED <<cache, stats>>
  /\ recency' = StillIn(recency, cache')
  /\ lastOp' = [op |-> "has", key |-> key,
                res |-> key \in DOMAIN cache /\ ~ Expired(cache[key], now),
                prev |-> JustGot(key)]
  /\ UNCHANGED <<options, cleanupTimer, intervals, destroyed, now, accessCounter>>

\* lines 123-137: LRUCache.has
Has(key) ==
  /\ UNCHANGED notCache
  /\ CalledOther
  /\ IF key \in DOMAIN cache /\ Expired(cache[key], now)
       THEN /\ cache' = Without(cache, key)
            /\ accessOrder' = Without(accessOrder, key)
            /\ stats' = [stats EXCEPT !.cacheSize = Cardinality(DOMAIN cache')]
       ELSE UNCHANGED <<cache, accessOrder, stats>>
  /\ recency' = StillIn(recency, cache')
  /\ lastOp' = [op |-> "has", key |-> key,
                res |-> key \in DOMAIN cache /\ ~ Expired(cache[key], now),
                prev |-> JustGot(key)]
  /\ UNCHANGED <<options, cleanupTimer, intervals, destroyed, now, accessCounter>>

\* mutant of Clear: the counters of get are zeroed with the entries
Clear_ZeroingStats ==
  /\ UNCHANGED notCache
  /\ Called
  /\ fill' = [ok |-> TRUE, keys |-> <<>>]
  /\ cache' = <<>>
  /\ accessOrder' = <<>>
  /\ accessCounter' = 0
  /\ stats' = [stats EXCEPT !.cacheSize = 0, !.hits = 0, !.misses = 0,
                            !.totalRequests = 0]
  /\ recency' = <<>>
  /\ lastOp' = [op |-> "clear"]
  /\ UNCHANGED <<options, cleanupTimer, intervals, destroyed, now>>

\* lines 142-147: LRUCache.clear
Clear ==
  /\ UNCHANGED notCache
  /\ Called
  /\ fill' = [ok |-> TRUE, keys |-> <<>>]
  /\ cache' = <<>>
  /\ accessOrder' = <<>>
  /\ accessCounter' = 0
  /\ stats' = [stats EXCEPT !.cacheSize = 0]
  /\ recency' = <<>>
  /\ lastOp' = [op |-> "clear"]
  /\ UNCHANGED <<options, cleanupTimer, intervals, destroyed, now>>

\* lines 49-51 and 217-235: the interval timer fires and runs cleanup()
Cleanup ==
  /\ UNCHANGED notCache
  /\ CalledOther
  /\ intervals # {}
  /\ LET expiredKeys == {k \in DOMAIN cache : Expired(cache[k], now)}
     IN  /\ cache' = [k \in DOMAIN cache \ expiredKeys |-> cache[k]]
         /\ accessOrder' = [k \in DOMAIN accessOrder \ expiredKeys |->
                              accessOrder[k]]
         /\ stats' = IF expiredKeys # {}
                       THEN [stats EXCEPT !.cacheSize = Cardinality(DOMAIN cache')]
                       ELSE stats
  /\ recency' = StillIn(recency, cache')
  /\ lastOp' = [op |-> "cleanup"]
  /\ UNCHANGED <<options, now, accessCounter>>
  /\ UNCHANGED <<cleanupTimer, intervals, destroyed>>

\* Date.now() moves on between two calls on the cache
CacheAdvance ==
  /\ UNCHANGED notCache
  /\ options.maxSize > 0
  /\ now < CacheHorizon
  /\ now' = now + 1
  /\ lastOp' = [op |-> "none"]
  /\ UNCHANGED <<options, cache, accessOrder, accessCounter, stats,
                 cleanupTimer, intervals, destroyed, recency, ncalls, fill>>

\* lines 31-53: the fields of a cache constructed with one of `choices`
CacheInit(choices) ==
  /\ options \in choices
  /\ cache = <<>>
  /\ accessOrder = <<>>
  /\ accessCounter = 0
  /\ stats = [hits |-> 0, misses |-> 0, totalRequests |-> 0, cacheSize |-> 0,
              maxSize |-> options.maxSize]
  /\ cleanupTimer = (IF options.cleanupInterval > 0 THEN 1 ELSE 0)
  /\ intervals = (IF options.cleanupInterval > 0 THEN {1} ELSE {})
  /\ destroyed = FALSE
  /\ lastOp = [op |-> "none"]
  /\ recency = <<>>
  /\ ncalls = 0
  /\ fill = [ok |-> TRUE, keys |-> <<>>]

\* no method is wrapped by `cached`
NotWrapped == [ttl |-> 0, pending |-> <<>>, invoked |-> 0,
               last |-> [step |-> "none"]]

\* no cache under observation
NoCache == [maxSize |-> 0, defaultTtl |-> 0, cleanupInterval |-> 0]

CacheNext ==
  \/ \E k \in Keys : Get(k) /\ UNCHANGED wrapped
  \/ \E k \in Keys, v \in Values, ttl \in Ttls :
       Set(k, v, ttl) /\ UNCHANGED wrapped
  \/ \E k \in Keys : Delete(k) /\ UNCHANGED wrapped
  \/ \E k \in Keys : Has(k) /\ UNCHANGED wrapped
  \/ Clear /\ UNCHANGED wrapped
  \/ Cleanup /\ UNCHANGED wrapped
  \/ CacheAdvance /\ UNCHANGED wrapped

-----------------------------------------------------------------------------
(* The other public operations of LRUCache: resetStats (159-168),          *)
(* updateConfig (194-212) and destroy (278-284).                           *)

\* keys and values used where these operations are followed
LifeKeys == {"a", "b"}
LifeValues == {"v1"}

\* the Partial<CacheOptions> given to updateConfig
ConfigChanges ==
  { [f \in {"maxSize"} |-> m] : m \in {1, 2} }
    \cup { [f \in {"cleanupInterval"} |-> ci] : ci \in {0, 1} }
    \cup { [maxSize |-> 1, cleanupInterval |-> 1] }

\* line 195: { ...this.options, ...newOptions }
Merged(opts, newOptions) ==
  [f \in DOMAIN opts |-> IF f \in DOMAIN newOptions THEN newOptions[f]
                         ELSE opts[f]]

\* lines 199-201: whether the loop `while (size > maxSize) evictLRU()` ends;
\* it does not when evictLRU removes nothing
RECURSIVE LoopEnds(_, _, _)
LoopEnds(c, ao, maxSize) ==
  \/ Cardinality(DOMAIN c) <= maxSize
  \/ /\ DOMAIN ao # {}
     /\ Truthy(LRUKey(ao))
     /\ LoopEnds(EvictLRU(c, ao)[1], EvictLRU(c, ao)[2], maxSize)

\* lines 199-201: the pair <<cache, accessOrder>> the loop leaves
RECURSIVE EvictedDownTo(_, _, _)
EvictedDownTo(c, ao, maxSize) ==
  IF Cardinality(DOMAIN c) <= maxSize
    THEN <<c, ao>>
    ELSE EvictedDownTo(EvictLRU(c, ao)[1], EvictLRU(c, ao)[2], maxSize)

\* a handle setInterval has not given out yet
FreshHandle == 1 + Cardinality(intervals) + cleanupTimer

\* lines 159-168: LRUCache.resetStats
ResetStats ==
  /\ UNCHANGED notCache
  /\ CalledOther
  /\ stats' = [hits |-> 0, misses |-> 0, totalRequests |-> 0,
               cacheSize |-> Cardinality(DOMAIN cache),
               maxSize |-> options.maxSize]
  /\ lastOp' = [op |-> "resetStats"]
  /\ UNCHANGED <<options, cache, accessOrder, accessCounter, cleanupTimer,
                 intervals, destroyed, recency, now>>

\* lines 194-212: LRUCache.updateConfig, for the calls that return
UpdateConfig(newOptions) ==
  /\ UNCHANGED notCache
  /\ CalledOther
  /\ options' = Merged(options, newOptions)
  /\ LoopEnds(cache, accessOrder, options'.maxSize)
  /\ \E ev \in {EvictedDownTo(cache, accessOrder, options'.maxSize)} :
       /\ cache' = ev[1]
       /\ accessOrder' = ev[2]
  /\ stats' = [stats EXCEPT !.maxSize = options'.maxSize]
  /\ recency' = StillIn(recency, cache')
  /\ IF "cleanupInterval" \in DOMAIN newOptions /\ cleanupTimer # 0
       THEN IF options'.cleanupInterval > 0
              THEN /\ cleanupTimer' = FreshHandle
                   /\ intervals' = (intervals \ {cleanupTimer}) \cup {FreshHandle}
              ELSE /\ intervals' = intervals \ {cleanupTimer}
                   /\ UNCHANGED cleanupTimer
       ELSE UNCHANGED <<cleanupTimer, intervals>>
  /\ lastOp' = [op |-> "updateConfig", given |-> newOptions]
  /\ UNCHANGED <<accessCounter, destroyed, now>>

\* mutant of Destroy: the interval is left running
Destroy_TimerKept ==
  /\ UNCHANGED notCache
  /\ CalledOther
  /\ cleanupTimer' = 0
  /\ cache' = <<>>
  /\ accessOrder' = <<>>
  /\ accessCounter' = 0
  /\ stats' = [stats EXCEPT !.cacheSize = 0]
  /\ recency' = <<>>
  /\ destroyed' = TRUE
  /\ lastOp' = [op |-> "destroy", again |-> destroyed]
  /\ UNCHANGED <<options, now, intervals>>

\* lines 278-284: LRUCache.destroy
Destroy ==
  /\ UNCHANGED notCache
  /\ CalledOther
  /\ IF cleanupTimer # 0
       THEN /\ intervals' = intervals \ {cleanupTimer}
            /\ cleanupTimer' = 0
       ELSE UNCHANGED <<cleanupTimer, intervals>>
  /\ cache' = <<>>
  /\ accessOrder' = <<>>
  /\ accessCounter' = 0
  /\ stats' = [stats EXCEPT !.cacheSize = 0]
  /\ recency' = <<>>
  /\ destroyed' = TRUE
  /\ lastOp' = [op |-> "destroy", again |-> destroyed]
  /\ UNCHANGED <<options, now>>

LifeNext ==
  \/ \E k \in LifeKeys : Get(k) /\ UNCHANGED wrapped
  \/ \E k \in LifeKeys, v \in LifeValues, ttl \in Ttls :
       Set(k, v, ttl) /\ UNCHANGED wrapped
  \/ \E k \in LifeKeys : Delete(k) /\ UNCHANGED wrapped
  \/ \E k \in LifeKeys : Has(k) /\ UNCHANGED wrapped
  \/ Clear /\ UNCHANGED wrapped
  \/ Cleanup /\ UNCHANGED wrapped
  \/ ResetStats /\ UNCHANGED wrapped
  \/ \E o \in ConfigChanges : UpdateConfig(o) /\ UNCHANGED wrapped
  \/ Destroy /\ UNCHANGED wrapped
  \/ CacheAdvance /\ UNCHANGED wrapped

-----------------------------------------------------------------------------
(* The decorator cached(cache, keyGenerator, ttl): src/unnamed/part_007    *)
(* 328-359.  Calls of the wrapped method may overlap: each one that found  *)
(* nothing in the cache awaits the original method (line 349), and the     *)
(* cache is shared with other callers meanwhile.                           *)

\* what the original method may resolve with: a value, or null
MethodResults == {"v1", Null}

\* the sequence seq without its i-th element
SeqMinus(seq, i) == SubSeq(seq, 1, i - 1) \o SubSeq(seq, i + 1, Len(seq))

\* line 344: if (cached !== null)
IsCachedResult(res) == res # Null

\* lines 340-349: the wrapped method is called with arguments whose cache key
\* is key; it returns what cache.get gave, or invokes the original method
CachedCall(key) ==
  /\ Get(key)
  /\ IF IsCachedResult(lastOp'.res)
       THEN wrapped' = [wrapped EXCEPT
                          !.last = [step |-> "hit", key |-> key,
                                    res |-> lastOp'.res]]
       ELSE wrapped' = [wrapped EXCEPT
                          !.pending = Append(@, key),
                          !.invoked = @ + 1,
                          !.last = [step |-> "invoked", key |-> key]]

\* lines 349-356: the original method resolves for the i-th awaiting call;
\* the result is stored and returned
MethodResolves(i, res) ==
  /\ i \in 1..Len(wrapped.pending)
  /\ Set(wrapped.pending[i], res, wrapped.ttl)
  /\ wrapped' = [wrapped EXCEPT
                   !.pending = SeqMinus(@, i),
                   !.last = [step |-> "stored", key |-> wrapped.pending[i],
                             res |-> res]]

\* line 349: the original method rejects for the i-th awaiting call; the
\* await throws and the wrapped call rejects with the same error
MethodRejects(i) ==
  /\ i \in 1..Len(wrapped.pending)
  /\ wrapped' = [wrapped EXCEPT
                   !.pending = SeqMinus(@, i),
                   !.last = [step |-> "threw", key |-> wrapped.pending[i]]]
  /\ UNCHANGED <<now, cacheVars, notCache>>

\* calls of the wrapped method, the answers of the original method, and
\* another caller of the same cache
CachedNext ==
  \/ \E k \in LifeKeys : CachedCall(k)
  \/ \E i \in 1..MaxCalls, res \in MethodResults : MethodResolves(i, res)
  \/ \E i \in 1..MaxCalls : MethodRejects(i)
  \/ \E k \in LifeKeys : Delete(k) /\ UNCHANGED wrapped
  \/ CacheAdvance /\ UNCHANGED wrapped

-----------------------------------------------------------------------------
(* CacheManager: src/unnamed/part_007 363-433.  Every LRUCache it          *)
(* constructs is kept in `made` with the state of its sweep timer          *)
(* (constructor 44-53, destroy 278-284); `caches` maps a name to the index *)
(* in `made` of the cache registered under it.                             *)

\* number of createCache calls followed
MaxCaches == 4

CacheNames == {"api", "repo"}

\* options given to createCache: with and without a sweep
ManagedOptions ==
  { [maxSize |-> 2, defaultTtl |-> 2, cleanupInterval |-> ci] : ci \in {0, 1} }

\* lines 44-53: new LRUCache(options); the interval is started only for a
\* positive cleanupInterval
NewLRUCache(name, opts) ==
  [name |-> name, options |-> opts,
   cleanupTimer |-> opts.cleanupInterval > 0]

\* lines 278-284: LRUCache.destroy on the i-th cache made
Destroyed(m, i) == [m EXCEPT ![i].cleanupTimer = FALSE]

\* lines 428-430: destroy() on each of this.caches.values()
RECURSIVE DestroyedAll(_, _)
DestroyedAll(m, registered) ==
  IF registered = {}
    THEN m
    ELSE LET i == CHOOSE x \in registered : TRUE
         IN  DestroyedAll(Destroyed(m, i), registered \ {i})

\* the caches registered: this.caches.values()
Registered == { caches[n] : n \in DOMAIN caches }

\* lines 370-374: createCache(name, options)
CreateCache(name, opts) ==
  /\ Len(made) < MaxCaches
  /\ UNCHANGED notMgr
  /\ made' = Append(made, NewLRUCache(name, opts))
  /\ caches' = With(caches, name, Len(made) + 1)
  /\ mgrOp' = [op |-> "createCache", name |-> name]

\* lines 386-393: removeCache(name)
RemoveCache(name) ==
  /\ UNCHANGED notMgr
  /\ IF name \in DOMAIN caches
       THEN /\ made' = Destroyed(made, caches[name])
            /\ caches' = Without(caches, name)
            /\ mgrOp' = [op |-> "removeCache", name |-> name, res |-> TRUE]
       ELSE /\ UNCHANGED <<made, caches>>
            /\ mgrOp' = [op |-> "removeCache", name |-> name, res |-> FALSE]

\* lines 427-432: destroyAll()
DestroyAll ==
  /\ UNCHANGED notMgr
  /\ made' = DestroyedAll(made, Registered)
  /\ caches' = <<>>
  /\ mgrOp' = [op |-> "destroyAll"]

\* line 364: private caches = new Map()
MgrInit ==
  /\ caches = <<>>
  /\ made = <<>>
  /\ mgrOp = [op |-> "none"]

MgrNext ==
  \/ \E n \in CacheNames, o \in ManagedOptions : CreateCache(n, o)
  \/ \E n \in CacheNames : RemoveCache(n)
  \/ DestroyAll

-----------------------------------------------------------------------------
(* MultiTierRateLimiter: src/src/rate-limiting.ts 165-220, with tiers of   *)
(* both kinds.  checkLimit, getStatus and reset contain no await: a call   *)
(* runs from its first line to its return before any other task runs, so   *)
(* each is one step, and calls issued by concurrent tasks are taken in the *)
(* order the tasks issue them.                                             *)

\* bound: calls followed on one MultiTierRateLimiter
MaxLimiterCalls == 3

\* one more call is made on the limiter
LimiterCalled == calls < MaxLimiterCalls /\ calls' = calls + 1

\* the names checkLimit and reset are called with: the configured tiers and
\* one that no configuration has
TierNames == {"", "read", "write"}

\* lines 168-177: a token-bucket tier (`type` left out) of one request per
\* 6 ms beside a sliding-window tier, and a configuration whose first tier
\* is named by the empty string
MTConfigChoices ==
  { ("read" :> [maxRequests |-> 1, windowMs |-> 6, type |-> Undefined]) @@
    ("write" :> [maxRequests |-> 1, windowMs |-> 2, type |-> SlidingWindow]),
    ("" :> [maxRequests |-> 2, windowMs |-> 2, type |-> TokenBucket]) @@
    ("write" :> [maxRequests |-> 1, windowMs |-> 2, type |-> SlidingWindow]) }

\* the fields of the limiters in this.limiters
Limiters ==
  [requests |-> requests, tokens |-> tokens, lastRefill |-> lastRefill]

\* mutant of LimiterOf: a name never configured falls back to some tier
LimiterOf_Fallback(tier) ==
  IF tier \in Tiers THEN tier ELSE CHOOSE t \in Tiers : TRUE

\* line 183: this.limiters.get(tier)
LimiterOf(tier) == IF tier \in Tiers THEN tier ELSE Undefined

\* line 185: the Error thrown
UnknownTier(tier) == <<"Unknown rate limit tier: ", tier>>

\* mutant of CheckedIn: what the check writes is lost
CheckedIn_Stale(L, tier) == L

\* lines 77-84: the tokens refillTokens leaves in tier `tier` of limiters L
RefilledIn(L, tier) ==
  TBRefillTokens(L.tokens[tier], L.lastRefill[tier], refillRate[tier],
                 configs[tier].maxRequests, now)

\* line 187: what limiter.checkLimit() returns on tier `tier` of limiters L
CheckResultIn(L, tier) ==
  IF tier \in SWTiers
    THEN SWCheckResult(L.requests[tier], now, configs[tier])
    ELSE Once(RefilledIn(L, tier),
              LAMBDA tok : TBCheckResult(tok, refillRate[tier]))

\* lines 39 and 110: whether that result is allowed
AllowedIn(L, tier) ==
  IF tier \in SWTiers
    THEN SWHasRoom(Len(SWFilter(L.requests[tier], now, configs[tier].windowMs)),
                   configs[tier].maxRequests)
    ELSE TBHasToken(RefilledIn(L, tier))

\* line 187: the limiters limiter.checkLimit() leaves behind
CheckedIn(L, tier) ==
  IF tier \in SWTiers
    THEN [L EXCEPT !.requests[tier] =
                     SWRequestsAfterCheck(@, now, configs[tier])]
    ELSE Once(RefilledIn(L, tier), LAMBDA tok :
           [L EXCEPT !.tokens[tier] = TBTokensAfterCheck(tok),
                     !.lastRefill[tier] = now])

\* lines 72-75 and 149-151: limiter.reset() on each tier of S
ResetIn(L, S) ==
  [L EXCEPT
     !.requests = [t \in DOMAIN @ |-> IF t \in S THEN <<>> ELSE @[t]],
     !.tokens = [t \in DOMAIN @ |->
                   IF t \in S THEN DFromInt(configs[t].maxRequests) ELSE @[t]],
     !.lastRefill = [t \in DOMAIN @ |-> IF t \in S THEN now ELSE @[t]]]

\* line 208: the argument lists reset(tier?) is called with: none, or a name
ResetArguments == {<<>>} \cup {<<n>> : n \in TierNames}

\* line 209: if (tier)
Given(args) == Len(args) > 0 /\ Truthy(args[1])

\* lines 209-218: the tiers reset(tier?) calls limiter.reset() on
ResetTiers(args) ==
  IF Given(args)
    THEN IF LimiterOf(args[1]) # Undefined THEN {args[1]} ELSE {}
    ELSE Tiers

\* lines 182-188: MultiTierRateLimiter.checkLimit(tier)
MTCheckLimit(tier) ==
  /\ UNCHANGED notMT
  /\ LimiterCalled
  /\ \E limiter \in {LimiterOf(tier)} :
       IF limiter = Undefined
         THEN /\ lastCall' = [op |-> "checkLimit", tier |-> tier, at |-> now,
                              threw |-> UnknownTier(tier)]
              /\ UNCHANGED <<requests, hist, tokens, lastRefill, twin>>
         ELSE /\ Len(hist[limiter]) < MaxChecks(limiter)
              /\ \E res \in {CheckResultIn(Limiters, limiter)} :
                   /\ lastCall' = [op |-> "checkLimit", tier |-> tier,
                                   at |-> now, res |-> res]
                   /\ hist' = [hist EXCEPT
                                 ![limiter] = Append(@, [at |-> now, res |-> res])]
              /\ \E after \in {CheckedIn(Limiters, limiter)} :
                   /\ requests' = after.requests
                   /\ tokens' = after.tokens
                   /\ lastRefill' = after.lastRefill
              /\ twin' = [CheckedIn(twin, limiter) EXCEPT
                            !.allowed[limiter] =
                               Append(@, AllowedIn(twin, limiter))]
  /\ UNCHANGED <<now, configs, refillRate, since>>

\* lines 193-203 with 60-67 and 132-144: MultiTierRateLimiter.getStatus()
MTGetStatus ==
  /\ UNCHANGED notMT
  /\ LimiterCalled
  /\ Tiers # {}
  /\ requests' = [t \in DOMAIN requests |->
                    SWFilter(requests[t], now, configs[t].windowMs)]
  /\ tokens' = [t \in DOMAIN tokens |-> RefilledIn(Limiters, t)]
  /\ lastRefill' = [t \in DOMAIN lastRefill |-> now]
  /\ lastCall' =
       [op |-> "getStatus", at |-> now,
        res |-> [t \in Tiers |->
                   IF t \in SWTiers
                     THEN [requestCount |-> Len(requests'[t]),
                           remaining |->
                             configs[t].maxRequests - Len(requests'[t]),
                           resetTime |->
                             SWNextResetTime(requests'[t], now,
                                             configs[t].windowMs)]
                     ELSE [tokens |-> tokens'[t],
                           remaining |-> DFloor(tokens'[t])]]]
  /\ UNCHANGED <<now, configs, hist, refillRate, since, twin>>

\* lines 208-219: MultiTierRateLimiter.reset(tier?)
MTReset(args) ==
  /\ UNCHANGED notMT
  /\ LimiterCalled
  /\ Tiers # {}
  /\ \E S \in {ResetTiers(args)} :
       /\ \E after \in {ResetIn(Limiters, S)} :
            /\ requests' = after.requests
            /\ tokens' = after.tokens
            /\ lastRefill' = after.lastRefill
       /\ twin' = [ResetIn(twin, S) EXCEPT
                     !.allowed = [t \in DOMAIN @ |->
                                    IF t \in S THEN <<>> ELSE @[t]]]
       /\ hist' = [t \in DOMAIN hist |-> IF t \in S THEN <<>> ELSE hist[t]]
       /\ since' = [t \in DOMAIN since |-> IF t \in S THEN now ELSE since[t]]
  /\ lastCall' = [op |-> "reset", args |-> args, at |-> now]
  /\ UNCHANGED <<now, configs, refillRate>>

MTNext ==
  \/ \E n \in TierNames : MTCheckLimit(n)
  \/ MTGetStatus
  \/ \E args \in ResetArguments : MTReset(args)
  \/ Advance


-----------------------------------------------------------------------------
(* withRateLimit: src/src/rate-limiting.ts 239-266, a method decorated     *)
(* with @withRateLimit(tier) on an object whose `rateLimiter` is the       *)
(* MultiTierRateLimiter above (or is not set).                             *)

\* the tiers methods are decorated with; 'default' is the one of line 239
WrapNames == {"default", "write"}

\* the limiter injected: one with a sliding-window tier `write`, or none
WrapConfigChoices ==
  { [t \in {"write"} |->
       [maxRequests |-> 2, windowMs |-> 3, type |-> SlidingWindow]],
    NoTiers }

\* line 252: if (rateLimiter)
Injected == configs # NoTiers

\* line 257: result.retryAfter || 0
OrZero(n) == IF n # 0 THEN n ELSE 0

\* nothing thrown
NotThrown == [name |-> "none"]

\* lines 255-259 with 225-234: the RateLimitError built from a denial
RateLimitErrorOf(res) ==
  [name |-> "RateLimitError", retryAfter |-> OrZero(res.retryAfter),
   resetTime |-> res.resetTime]

\* mutant of MethodInvocations: the method is applied whatever the result
MethodInvocations_Always(res) == 1

\* lines 254-263: how often method.apply(this, args) runs after the check
\* returned res
MethodInvocations(res) == IF res.allowed THEN 1 ELSE 0

\* lines 248-264: one call of the decorated method, up to the point where the
\* method itself has been applied or the error thrown
WrappedCall(tier) ==
  /\ UNCHANGED notRL
  /\ IF ~ Injected
       THEN /\ lastCall' = [op |-> "wrapped", tier |-> tier, at |-> now,
                            invoked |-> 1, threw |-> NotThrown]
            /\ UNCHANGED <<requests, hist, tokens, lastRefill>>
       ELSE \E limiter \in {LimiterOf(tier)} :
         IF limiter = Undefined
           THEN /\ lastCall' = [op |-> "wrapped", tier |-> tier, at |-> now,
                                invoked |-> 0,
                                threw |-> [name |-> "Error",
                                           message |-> UnknownTier(tier)]]
                /\ UNCHANGED <<requests, hist, tokens, lastRefill>>
           ELSE /\ Len(hist[limiter]) < MaxChecks(limiter)
                /\ \E res \in {CheckResultIn(Limiters, limiter)} :
                     /\ lastCall' =
                          [op |-> "wrapped", tier |-> tier, at |-> now,
                           res |-> res, invoked |-> MethodInvocations(res),
                           threw |-> IF res.allowed
                                       THEN NotThrown
                                       ELSE RateLimitErrorOf(res)]
                     /\ hist' = [hist EXCEPT
                                   ![limiter] =
                                      Append(@, [at |-> now, res |-> res])]
                /\ \E after \in {CheckedIn(Limiters, limiter)} :
                     /\ requests' = after.requests
                     /\ tokens' = after.tokens
                     /\ lastRefill' = after.lastRefill
  /\ UNCHANGED <<now, configs, refillRate, since>>

WrapNext ==
  \/ \E n \in WrapNames : WrappedCall(n)
  \/ SWNext

-----------------------------------------------------------------------------
(* The specifications                                                      *)

InitExec == ExecInit /\ RLInit({NoTiers}) /\ CacheInit({NoCache})
  /\ MgrInit /\ wrapped = NotWrapped

SpecExec == InitExec /\ [][ExecNext]_vars

\* lines 609, 636 and 659: a timer given to setTimeout fires once its time has
\* passed, the per-attempt timeout as well as the sleep between attempts;
\* nothing makes the transport answer or deliver a body
TimersFire ==
  /\ WF_vars(\E i \in 0..MaxRetries : TimeoutFires(i))
  /\ WF_vars(DelayElapsed)

SpecExecFair == InitExec /\ [][ExecNext]_vars /\ TimersFire

InitSW == ExecInit /\ RLInit(SWConfigChoices) /\ CacheInit({NoCache})
  /\ MgrInit /\ wrapped = NotWrapped

SpecSW == InitSW /\ [][SWNext]_vars

InitTB == ExecInit /\ RLInit(TBConfigChoices) /\ CacheInit({NoCache})
  /\ MgrInit /\ wrapped = NotWrapped

SpecTB == InitTB /\ [][TBNext]_vars

InitMT == ExecInit /\ RLInit(MTConfigChoices) /\ CacheInit({NoCache})
  /\ MgrInit /\ wrapped = NotWrapped

SpecMT == InitMT /\ [][MTNext]_vars

InitWrap == ExecInit /\ RLInit(WrapConfigChoices) /\ CacheInit({NoCache})
  /\ MgrInit /\ wrapped = NotWrapped

SpecWrap == InitWrap /\ [][WrapNext]_vars

InitCache == ExecInit /\ RLInit({NoTiers}) /\ CacheInit(OptionChoices)
  /\ MgrInit /\ wrapped = NotWrapped

SpecCache == InitCache /\ [][CacheNext]_vars

SpecLife == InitCache /\ [][LifeNext]_vars

\* line 331: the ttl the method was decorated with (0 for an omitted one)
InitCached == ExecInit /\ RLInit({NoTiers}) /\ CacheInit(OptionChoices)
  /\ MgrInit /\ wrapped \in {[NotWrapped EXCEPT !.ttl = t] : t \in Ttls}

SpecCached == InitCached /\ [][CachedNext]_vars

InitMgr == ExecInit /\ RLInit({NoTiers}) /\ CacheInit({NoCache}) /\ MgrInit
  /\ wrapped = NotWrapped

SpecMgr == InitMgr /\ [][MgrNext]_vars

-----------------------------------------------------------------------------
(* Claims about the request executor, checked under SpecExec.              *)

Retryable(o) == o \in {"5xx", "network"}
AllRetryable(seq) == \A i \in 1..Len(seq) : Retryable(seq[i])
AllTimeouts(seq) == \A i \in 1..Len(seq) : seq[i] = "timeout"
Front(seq) == SubSeq(seq, 1, Len(seq) - 1)

\* the steps of a call that invoke the transport
Invokes == DelayElapsed \/ \E r \in 0..MaxRetries : MakeRequest(r)

\* C1: an attempt that ends with a status in [400,500) is the last transport
\* invocation of its call: when attempt number i ended with a 4xx, exactly i
\* invocations have been made (a 404 on the first attempt: exactly one).
C1_ClientErrorNeverRetried ==
  \A i \in 1..Len(outcomes) : outcomes[i] = "4xx" => invocations = i

\* C2: after k <= retries failures with a 5xx status or a network error the
\* executor has not given up; when the next attempt succeeds the transport has
\* been invoked exactly k+1 times, the value returned is the body of attempt
\* k+1 (0-based attempt k), and no step that invokes the transport is enabled.
C2_RetryUntilSuccess ==
  /\ (AllRetryable(outcomes) /\ Len(outcomes) <= retries) => pc # "rejected"
  /\ (pc = "resolved" /\ AllRetryable(Front(outcomes)))
       => /\ outcomes[Len(outcomes)] = "ok"
          /\ invocations = Len(outcomes)
          /\ result.attempt = Len(outcomes) - 1
          /\ ~ ENABLED Invokes
  /\ (pc = "resolved" /\ retries = 3 /\ outcomes = <<"5xx", "5xx", "5xx", "ok">>)
       => invocations = 4

\* C2 witness: retries = 3, three 503 answers, then a success on the 4th attempt
C2_Witness ==
  /\ pc = "resolved"
  /\ retries = 3
  /\ outcomes = <<"5xx", "5xx", "5xx", "ok">>
  /\ lastError = StatusError(503, 2)
  /\ invocations = 4

\* C3: while every attempt so far has timed out and fewer than retries+1
\* attempts were made, the call is not rejected; when it is rejected after
\* nothing but timeouts, exactly retries+1 attempts were made and the error
\* raised is the 'Request timeout' error.
C3_TimeoutOnEveryAttempt ==
  /\ (AllTimeouts(outcomes) /\ Len(outcomes) <= retries) => pc # "rejected"
  /\ (pc = "rejected" /\ AllTimeouts(outcomes))
       => /\ invocations = retries + 1
          /\ Len(outcomes) = retries + 1
          /\ thrown = [kind |-> "timeout", attempt |-> retries]

\* C3 witness: a call with retries = 2 rejected after three timeouts
C3_Witness ==
  /\ pc = "rejected"
  /\ retries = 2
  /\ outcomes = <<"timeout", "timeout", "timeout">>

-----------------------------------------------------------------------------
(* Claims about the sliding-window limiter, checked under SpecSW.          *)

Cap(t) == configs[t].maxRequests
Win(t) == configs[t].windowMs
Denied(e) == ~ e.res.allowed
IsBurst(t) == Cap(t) = 60 /\ Win(t) = 60000

\* C6: on a fresh (or reset) sliding-window tier of capacity c, each of the
\* first c checks issued within one window of the first is allowed, and each
\* further check issued while the first admission is still inside the window
\* is denied; on the burst tier 61 checks at one instant give 60 allowed and
\* the 61st denied.
C6_SWAdmitsCapacityPerWindow ==
  \A t \in SWTiers :
    LET h == hist[t]
    IN  /\ \A i \in 1..Len(h) :
             h[i].at < h[1].at + Win(t) => (h[i].res.allowed <=> i <= Cap(t))
        /\ (IsBurst(t) /\ Len(h) >= 61 /\ h[61].at = h[1].at)
             => /\ \A i \in 1..60 : h[i].res.allowed
                /\ Denied(h[61])

\* C6 witness: the burst tier after 61 checks at one instant, the last denied
C6_Witness ==
  \E t \in SWTiers :
    /\ IsBurst(t)
    /\ Len(hist[t]) = 61
    /\ hist[t][61].at = hist[t][1].at
    /\ hist[t][60].res.allowed
    /\ Denied(hist[t][61])

\* check j of tier t is the first one issued after the first admission of a
\* full window (the first Cap(t) checks, all inside one window) has aged out
FirstAfterAgeing(t, j) ==
  LET h == hist[t]
  IN  /\ j > Cap(t)
      /\ j <= Len(h)
      /\ h[Cap(t)].at < h[1].at + Win(t)
      /\ h[j].at >= h[1].at + Win(t)
      /\ \A i \in 1..(j - 1) : h[i].at < h[1].at + Win(t)

\* the admissions of the full window that have aged out when check j is issued
AgedOut(t, j) ==
  Cardinality({i \in 1..Cap(t) : hist[t][i].at <= hist[t][j].at - Win(t)})

\* C7 as stated: once the oldest admission has aged out, exactly one more
\* check is allowed and the check after it (at that instant) is denied.
C7_ExactlyOneMore ==
  \A t \in SWTiers : \A j \in 1..Len(hist[t]) :
    (FirstAfterAgeing(t, j) /\ j < Len(hist[t])
       /\ hist[t][j + 1].at = hist[t][j].at)
      => (hist[t][j].res.allowed /\ Denied(hist[t][j + 1]))

\* C7 amended: once the oldest admission has aged out, the checks issued at that
\* instant are allowed exactly as long as their number does not exceed the
\* number of admissions that have aged out (one when only the oldest has), and
\* the check after them is denied.
C7_AsManyAsAgedOut ==
  \A t \in SWTiers : \A j \in 1..Len(hist[t]) :
    FirstAfterAgeing(t, j)
      => \A m \in j..Len(hist[t]) :
           hist[t][m].at = hist[t][j].at
             => (hist[t][m].res.allowed <=> m - j < AgedOut(t, j))

\* C7 witness: only the oldest admission has aged out; one more check is
\* allowed and the next one at that instant is denied
C7_Witness ==
  \E t \in SWTiers : \E j \in 1..Len(hist[t]) :
    /\ FirstAfterAgeing(t, j)
    /\ Cap(t) > 1
    /\ AgedOut(t, j) = 1
    /\ j < Len(hist[t])
    /\ hist[t][j + 1].at = hist[t][j].at
    /\ hist[t][j].res.allowed
    /\ Denied(hist[t][j + 1])

\* C8: a denied sliding-window check reports retryAfter = oldest stored
\* timestamp + window - now, which is not below 0; the next check of the tier
\* is allowed exactly when it is issued at least retryAfter ms after the
\* denial; the 61st instant check of the burst tier reports 60000.
C8_SWRetryAfter ==
  \A t \in SWTiers :
    LET h == hist[t]
    IN  /\ (lastCall.op = "checkLimit" /\ lastCall.tier = t
              /\ ~ lastCall.res.allowed)
             => /\ lastCall.res.retryAfter
                     = SeqMin(requests[t]) + Win(t) - lastCall.at
                /\ lastCall.res.retryAfter >= 0
        /\ \A i \in 1..(Len(h) - 1) :
             Denied(h[i])
               => (h[i + 1].res.allowed
                     <=> h[i + 1].at >= h[i].at + h[i].res.retryAfter)
        /\ (IsBurst(t) /\ Len(h) >= 61 /\ h[61].at = h[1].at)
             => h[61].res.retryAfter = 60000

\* C8 witness: a denial with a positive retryAfter and the next check, issued
\* exactly retryAfter ms later, allowed
C8_Witness ==
  \E t \in SWTiers : \E i \in 1..(Len(hist[t]) - 1) :
    /\ Denied(hist[t][i])
    /\ hist[t][i].res.retryAfter > 0
    /\ hist[t][i + 1].at = hist[t][i].at + hist[t][i].res.retryAfter
    /\ hist[t][i + 1].res.allowed

-----------------------------------------------------------------------------
(* Claims about the token-bucket limiter, checked under SpecTB.            *)

\* C4: on a token-bucket tier of capacity c that was just constructed or
\* reset, of the checks made with no time elapsed exactly the first c are
\* allowed: the j-th check at that instant is allowed iff j <= c, so the
\* (c+1)-th is denied.
C4_TBAllowsCapacityAtOnce ==
  \A t \in TBTiers :
    \A j \in 1..Len(hist[t]) :
      hist[t][j].at = since[t] => (hist[t][j].res.allowed <=> j <= Cap(t))

\* a tier reset after time has passed, then checked c+1 times at that instant:
\* c allowed, the last denied
C4_Witness ==
  \E t \in TBTiers :
    /\ since[t] > 0
    /\ Len(hist[t]) = Cap(t) + 1
    /\ \A j \in 1..Len(hist[t]) : hist[t][j].at = since[t]
    /\ \A j \in 1..Cap(t) : hist[t][j].res.allowed
    /\ ~hist[t][Cap(t) + 1].res.allowed

\* the first c checks of tier t were made at one instant and all allowed
\* (they emptied the bucket), and the next check came window/capacity ms later
EmptiedThenWaited(t) ==
  /\ Win(t) % Cap(t) = 0
  /\ Len(hist[t]) > Cap(t)
  /\ \A j \in 1..Cap(t) :
       hist[t][j].at = hist[t][1].at /\ hist[t][j].res.allowed
  /\ hist[t][Cap(t) + 1].at = hist[t][1].at + Win(t) \div Cap(t)

\* the check after the wait is allowed, and a second one at that instant is denied
OneMoreAllowed(t) ==
  /\ hist[t][Cap(t) + 1].res.allowed
  /\ (Len(hist[t]) > Cap(t) + 1 /\ hist[t][Cap(t) + 2].at = hist[t][Cap(t) + 1].at)
       => ~hist[t][Cap(t) + 2].res.allowed

\* C5: for every token-bucket tier, once capacity checks at one instant have
\* emptied the bucket, the check made window/capacity ms later is allowed and
\* a second check at that same instant is denied.
C5_WaitRestoresOneCheck ==
  \A t \in TBTiers : EmptiedThenWaited(t) => OneMoreAllowed(t)

\* the same on the tiers whose refill rate times window/capacity is 1 in
\* binary64 arithmetic
C5_WhereRefillIsExact ==
  \A t \in TBTiers :
    (EmptiedThenWaited(t) /\ DMul(refillRate[t], Win(t) \div Cap(t)) = DFromInt(1))
      => OneMoreAllowed(t)

C5_ExactReached ==
  \E t \in TBTiers :
    /\ EmptiedThenWaited(t)
    /\ DMul(refillRate[t], Win(t) \div Cap(t)) = DFromInt(1)
    /\ Len(hist[t]) > Cap(t) + 1
    /\ hist[t][Cap(t) + 2].at = hist[t][Cap(t) + 1].at

-----------------------------------------------------------------------------
(* Claims about the cache, checked under SpecCache.                        *)

Size == Cardinality(DOMAIN cache)

\* C9: get(k) called right after set(k, v, ttl) with ttl > 0, at the same
\* instant and with no call in between, returns v, whatever the cache held
\* before the set.
C9_SetThenGet ==
  (lastOp.op = "get" /\ lastOp.prev.set /\ lastOp.prev.ttl > 0)
    => lastOp.res = lastOp.prev.data

\* C9 witness: such a get, after a set that found the cache full
C9_Witness ==
  /\ lastOp.op = "get"
  /\ lastOp.prev.set
  /\ lastOp.prev.ttl > 0
  /\ lastOp.prev.full
  /\ lastOp.res = lastOp.prev.data
  /\ lastOp.res \in Values

\* C10: after maxSize+1 distinct keys were set on an empty cache with no other
\* call in between, the size is maxSize, the first key is absent and the other
\* keys are present; and a set of a new key at capacity evicts exactly the
\* entry whose most recent set or get is the oldest.
C10_EvictsLeastRecentlyUsed ==
  /\ (fill.ok /\ Len(fill.keys) = options.maxSize + 1)
       => /\ Size = options.maxSize
          /\ fill.keys[1] \notin DOMAIN cache
          /\ \A i \in 2..Len(fill.keys) : fill.keys[i] \in DOMAIN cache
  /\ (lastOp.op = "set" /\ lastOp.full) => lastOp.evicted = lastOp.oldest

\* the same with the empty string kept out: it holds whenever the least
\* recently used key is not ""
C10_ForNonEmptyKeys ==
  /\ (fill.ok /\ Len(fill.keys) = options.maxSize + 1 /\ "" \notin DOMAIN cache)
       => /\ Size = options.maxSize
          /\ fill.keys[1] \notin DOMAIN cache
          /\ \A i \in 2..Len(fill.keys) : fill.keys[i] \in DOMAIN cache
  /\ (lastOp.op = "set" /\ lastOp.full /\ lastOp.oldest # {""})
       => lastOp.evicted = lastOp.oldest

\* whether the ttl of what a get found had elapsed when it was called
Elapsed(was) == was.stored /\ now > was.timestamp + was.ttl

\* C11: a get(k) that finds an entry whose ttl has elapsed (now > timestamp +
\* ttl) returns a miss and removes the entry, so that size() does not count it
\* and a has(k) that follows at once returns false.
C11_ExpiredGetMissesAndRemoves ==
  /\ (lastOp.op = "get" /\ Elapsed(lastOp.was))
       => /\ lastOp.res = Null
          /\ lastOp.key \notin DOMAIN cache
          /\ stats.cacheSize = Size
  /\ (lastOp.op = "has" /\ lastOp.prev.got /\ Elapsed(lastOp.prev.was))
       => /\ ~ lastOp.res
          /\ lastOp.key \notin DOMAIN cache

\* set(k) once, time passes beyond the ttl, then get(k) and has(k): two misses
C11_Witness ==
  /\ lastOp.op = "has"
  /\ lastOp.prev.got
  /\ Elapsed(lastOp.prev.was)
  /\ lastOp.prev.res = Null
  /\ ~ lastOp.res
  /\ ncalls = 3
  /\ Size = 0

-----------------------------------------------------------------------------
(* Claims about the MultiTierRateLimiter (specification SpecMT)            *)

\* the fields of the limiter of tier t are left as they were by this step
TierUnchanged(t) ==
  IF t \in SWTiers
    THEN requests'[t] = requests[t]
    ELSE tokens'[t] = tokens[t] /\ lastRefill'[t] = lastRefill[t]

\* C12: a checkLimit with a tier name that was never configured throws the
\* 'Unknown rate limit tier' error, returns no result, and leaves the limiter
\* of every configured tier as it was.
C12_UnknownTierThrows ==
  [][ (lastCall'.op = "checkLimit" /\ lastCall'.tier \notin Tiers)
        => /\ "res" \notin DOMAIN lastCall'
           /\ lastCall'.threw = UnknownTier(lastCall'.tier)
           /\ \A t \in Tiers : TierUnchanged(t)
           /\ UNCHANGED hist ]_vars

\* C12 witness: every configured tier has admitted a check, then checkLimit is
\* called with a name that is not configured and throws
C12_Witness ==
  /\ lastCall.op = "checkLimit"
  /\ lastCall.tier \notin Tiers
  /\ "threw" \in DOMAIN lastCall
  /\ \A t \in Tiers : Len(hist[t]) = 1 /\ hist[t][1].res.allowed

\* the allowed / denied results of the checks of tier t, in order
Decisions(t) == [j \in 1..Len(hist[t]) |-> hist[t][j].res.allowed]

\* C13: getStatus() returns an entry for every configured tier, and the
\* allowed / denied results of the checks are the same as those of the same
\* checks made at the same instants on a limiter on which getStatus is never
\* called.
C13_GetStatusConsumesNothing ==
  /\ lastCall.op = "getStatus" => DOMAIN lastCall.res = Tiers
  /\ \A t \in Tiers : Decisions(t) = twin.allowed[t]

\* whether binary64 holds maxRequests / windowMs of tier t exactly here: the
\* rate is a whole number of tokens per ms
WholeRate(t) == configs[t].maxRequests % configs[t].windowMs = 0

\* C13, where it holds: on the sliding-window tiers and on the token-bucket
\* tiers whose refill rate is a whole number
C13_WhereRefillIsExact ==
  /\ lastCall.op = "getStatus" => DOMAIN lastCall.res = Tiers
  /\ \A t \in Tiers :
       (t \in SWTiers \/ WholeRate(t)) => Decisions(t) = twin.allowed[t]

\* a state C13_WhereRefillIsExact is about: getStatus has dropped the admission
\* timestamp of a sliding-window tier that the limiter without getStatus calls
\* still holds, and has refilled a token bucket of whole rate
C13_ExactReached ==
  /\ lastCall.op = "getStatus"
  /\ requests # twin.requests
  /\ \E t \in TBTiers : WholeRate(t) /\ tokens[t] # twin.tokens[t]

\* the next n checks of tier `tier` of limiters L, all made now, are allowed
RECURSIVE AllowsAtOnce(_, _, _)
AllowsAtOnce(L, tier, n) ==
  \/ n = 0
  \/ /\ AllowedIn(L, tier)
     /\ Once(CheckedIn(L, tier),
             LAMBDA after : AllowsAtOnce(after, tier, n - 1))

\* the tiers reset(tier?) is to restore: the tier named, or all without a name
Restored(args) == IF Len(args) = 0 THEN Tiers ELSE {args[1]} \cap Tiers

\* C14: right after reset(tier) the next `capacity` checks of that tier at the
\* same instant are all allowed, and the call leaves every other tier as it
\* was; right after reset() this holds of every configured tier.
C14_ResetRestoresTheTier ==
  /\ [](lastCall.op = "reset"
          => \A t \in Restored(lastCall.args) :
               AllowsAtOnce(Limiters, t, Cap(t)))
  /\ [][ (lastCall'.op = "reset" /\ Len(lastCall'.args) = 1)
           => \A u \in Tiers \ {lastCall'.args[1]} :
                TierUnchanged(u) /\ hist'[u] = hist[u] ]_vars

\* C14, where it holds: for reset() and for reset(tier) with a name that is
\* not the empty string
C14_ForNonEmptyNames ==
  /\ [](lastCall.op = "reset"
          => \A t \in Restored(lastCall.args) :
               AllowsAtOnce(Limiters, t, Cap(t)))
  /\ [][ (lastCall'.op = "reset" /\ Len(lastCall'.args) = 1
            /\ Truthy(lastCall'.args[1]))
           => \A u \in Tiers \ {lastCall'.args[1]} :
                TierUnchanged(u) /\ hist'[u] = hist[u] ]_vars

\* a state C14_ForNonEmptyNames is about: two tiers were used up, one of them
\* was reset by name
C14_NamedResetReached ==
  /\ lastCall.op = "reset"
  /\ lastCall.args = <<"write">>
  /\ hist["write"] = <<>>
  /\ \E u \in Tiers \ {"write"} : Len(hist[u]) > 0 /\ ~ AllowedIn(Limiters, u)

-----------------------------------------------------------------------------
(* Further claims about the request executor                               *)

\* C15: whatever the attempts end with, a call with retries = r >= 0 invokes
\* the transport at least once and at most r+1 times (at most 4 times with
\* the default r = 3).
C15_InvocationsWithinBudget ==
  /\ pc # "idle" => invocations >= 1 /\ invocations <= retries + 1
  /\ (pc # "idle" /\ retries = 3) => invocations <= 4

\* C15 witness: a call with retries = 3 rejected after four invocations that
\* ended in a 5xx answer, a network error, a timeout and a 4xx answer
C15_Witness ==
  /\ pc = "rejected"
  /\ retries = 3
  /\ invocations = 4
  /\ outcomes = <<"5xx", "network", "timeout", "4xx">>

\* the call was rejected after all retries+1 attempts
Exhausted == pc = "rejected" /\ invocations = retries + 1

\* C16: a call rejected after its attempts are exhausted raises the error of
\* the final attempt: the status error of its answer, the timeout error if it
\* timed out, the network error if the transport failed.
C16_RaisesLastObservedError ==
  Exhausted =>
    /\ thrown.attempt = retries
    /\ LET last == outcomes[Len(outcomes)]
       IN  /\ last \in {"5xx", "4xx"} => thrown.kind = "status"
           /\ last = "5xx" => ~ IsClientError(thrown.status)
           /\ last = "timeout" => thrown.kind = "timeout"
           /\ last = "network" => thrown.kind = "network"

\* C16 witness: retries = 2; a timeout, a network error, then a 500 answer,
\* which is the error raised
C16_Witness ==
  /\ Exhausted
  /\ retries = 2
  /\ outcomes = <<"timeout", "network", "5xx">>
  /\ thrown = StatusError(500, 2)

\* C17: every sleep between attempts is given exactly retryDelay ms (1000 when
\* the option is left out); there is one sleep between two consecutive
\* attempts, none before the first attempt and none after the last.
C17_OneFixedDelayBetweenAttempts ==
  /\ \A i \in 1..Len(waits) : waits[i] = retryDelay
  /\ pc \in {"fetch", "body"} => Len(waits) = invocations - 1
  /\ pc = "delay" => Len(waits) = invocations
  /\ pc \in {"resolved", "rejected"} => Len(waits) = invocations - 1

\* C17 witness: a call with the default retryDelay and retries = 3 that
\* succeeds on its 4th attempt, after three sleeps of 1000 ms
C17_Witness ==
  /\ pc = "resolved"
  /\ retryDelay = DefaultRetryDelay
  /\ invocations = 4
  /\ waits = <<1000, 1000, 1000>>

\* C18: with timers firing, every call that has started is eventually
\* resolved or rejected, even if the transport never answers and never
\* delivers a body.
C18_EveryCallSettles ==
  (pc # "idle") ~> (pc \in {"resolved", "rejected"})

\* C18, where it holds: while the answer is awaited the timer of the attempt
\* is pending, and the wait for the answer always ends
C18_AwaitOfResponseEnds ==
  /\ [](pc = "fetch" => attempt \in timers)
  /\ (pc = "fetch") ~> (pc # "fetch")

\* line 617: once the answer has arrived the timer of the attempt is cleared,
\* so none is pending while the body is read
C18_NoTimerWhileBodyIsRead == pc = "body" => attempt \notin timers

\* a state C18_NoTimerWhileBodyIsRead is about: the body of the answer of the
\* last attempt is being read, timers of earlier attempts still pending
C18_BodyReached ==
  /\ pc = "body"
  /\ attempt = retries
  /\ retries = 2
  /\ timers = {0, 1}

-----------------------------------------------------------------------------
(* Concurrent checks (specification SpecMT)                                *)

\* the j-th check of tier t since construction or reset found exactly one
\* unit of capacity and took it
TookLastUnit(t, j) ==
  hist[t][j].res.allowed /\ hist[t][j].res.remaining = 0

\* C19: of the checks of one tier issued at one instant, the one that finds
\* exactly one unit of capacity is allowed, and every check issued after it at
\* that instant is denied: no two checks take the last unit.
C19_ChecksTakenInIssueOrder ==
  \A t \in Tiers : \A j \in 1..Len(hist[t]) :
    TookLastUnit(t, j)
      => \A k \in (j + 1)..Len(hist[t]) :
           hist[t][k].at = hist[t][j].at => Denied(hist[t][k])

\* C19 witness: three checks of one tier issued at the same instant with one
\* unit left: the first is allowed, the second and the third are denied
C19_Witness ==
  \E t \in Tiers :
    /\ Len(hist[t]) = 3
    /\ \A k \in 2..3 : hist[t][k].at = hist[t][1].at /\ Denied(hist[t][k])
    /\ TookLastUnit(t, 1)

-----------------------------------------------------------------------------
(* Further claims about the cache (specification SpecCache)                *)

\* C20: a has(k) that finds k stored and not expired changes neither the
\* access order (so the entry the next eviction removes is the same) nor the
\* hits, misses and totalRequests counters.
C20_HasLeavesRecencyAndCounters ==
  [][ (lastOp'.op = "has" /\ lastOp'.res)
        => /\ UNCHANGED <<cache, accessOrder, accessCounter, recency>>
           /\ EvictLRU(cache', accessOrder') = EvictLRU(cache, accessOrder)
           /\ stats'.hits = stats.hits
           /\ stats'.misses = stats.misses
           /\ stats'.totalRequests = stats.totalRequests ]_vars

\* C20 witness: two keys are stored and has was called on the least recently
\* used one, which is still the one evictLRU picks
C20_Witness ==
  /\ lastOp.op = "has"
  /\ lastOp.res
  /\ Size = 2
  /\ lastOp.key = LRUKey(accessOrder)
  /\ Truthy(lastOp.key)

\* C21: a set of a key that is already stored replaces its value, ttl and
\* creation time, gives it the highest access number, removes no entry, keeps
\* every other entry as it was and leaves size() unchanged, also when the
\* cache holds maxSize entries.
C21_SetOfStoredKeyOverwrites ==
  [][ (lastOp'.op = "set" /\ lastOp'.key \in DOMAIN cache)
        => /\ cache'[lastOp'.key] =
                [data |-> lastOp'.data, timestamp |-> now,
                 ttl |-> EffectiveTtl(lastOp'.ttl)]
           /\ DOMAIN cache' = DOMAIN cache
           /\ \A k \in DOMAIN cache \ {lastOp'.key} :
                cache'[k] = cache[k] /\ accessOrder'[k] = accessOrder[k]
           /\ \A k \in DOMAIN cache' \ {lastOp'.key} :
                accessOrder'[k] < accessOrder'[lastOp'.key]
           /\ stats'.cacheSize = Cardinality(DOMAIN cache) ]_vars

\* C21 witness: a cache of maxSize 2 holds two keys; the least recently used
\* one was set again with another value, and both keys are still stored
C21_Witness ==
  /\ lastOp.op = "set"
  /\ lastOp.present
  /\ options.maxSize = 2
  /\ Size = 2
  /\ recency[2] = lastOp.key
  /\ accessOrder[recency[1]] = 2
  /\ cache[lastOp.key].data = "v2"
  /\ ncalls = 3

-----------------------------------------------------------------------------
(* Claims about withRateLimit (specification SpecWrap)                     *)

\* the decorated method was called and its tier was checked
Checked == lastCall.op = "wrapped" /\ "res" \in DOMAIN lastCall

\* C22: when the check of a decorated call is denied, the method is not
\* applied and the RateLimitError thrown carries the retryAfter and the
\* resetTime of the denial (the time until, and the instant at which, the
\* oldest admission leaves the window); when the check is allowed the method
\* is applied exactly once and nothing is thrown.
C22_DeniedCallIsNotInvoked ==
  Checked =>
    LET t == lastCall.tier
    IN  IF lastCall.res.allowed
          THEN lastCall.invoked = 1 /\ lastCall.threw = NotThrown
          ELSE /\ lastCall.invoked = 0
               /\ lastCall.threw.name = "RateLimitError"
               /\ lastCall.threw.retryAfter = lastCall.res.retryAfter
               /\ lastCall.threw.resetTime = lastCall.res.resetTime
               /\ lastCall.threw.retryAfter = SWRetryAfter(requests[t], now, Win(t))
               /\ lastCall.threw.resetTime = SeqMin(requests[t]) + Win(t)

\* C22 witness: two admissions at time 0 fill the tier; a decorated call at
\* time 1 is denied with retryAfter 2 and resetTime 3, the method not applied
C22_Witness ==
  /\ Checked
  /\ Denied(lastCall)
  /\ now = 1
  /\ lastCall.invoked = 0
  /\ lastCall.threw = [name |-> "RateLimitError", retryAfter |-> 2,
                       resetTime |-> 3]

\* a decorated call whose check was allowed: the method was applied once
C22_AllowedReached ==
  /\ Checked
  /\ lastCall.res.allowed
  /\ lastCall.invoked = 1
  /\ Len(hist[lastCall.tier]) = 2

-----------------------------------------------------------------------------
(* Claims about the CacheManager (specification SpecMgr)                   *)

\* the caches made whose sweep timer is still active
ActiveTimers == { i \in DOMAIN made : made[i].cleanupTimer }

\* C23 as stated: after destroyAll() no cache ever created through the
\* manager has an active sweep timer.  The code violates it: createCache
\* with a name already registered drops the earlier cache from the Map
\* without destroying it.
C23_DestroyAllReleasesEveryTimer ==
  mgrOp.op = "destroyAll" => ActiveTimers = {}

\* C23, what the code ensures: destroyAll() stops the timer of every cache
\* registered at the call, leaves the other caches as they were and empties
\* the Map.
C23_RegisteredAreReleased ==
  [][ mgrOp'.op = "destroyAll"
        => /\ ActiveTimers' = ActiveTimers \ Registered
           /\ caches' = <<>> ]_vars

\* C23, the cause: a cache whose timer is active and which is not registered
\* was replaced in the Map by a later createCache with its name.
C23_LeakedWereReplaced ==
  \A i \in ActiveTimers \ Registered :
    \E j \in DOMAIN made : j > i /\ made[j].name = made[i].name

\* C23: a timer left active by destroyAll()
C23_LeakReached ==
  /\ mgrOp.op = "destroyAll"
  /\ ActiveTimers = {1}
  /\ Len(made) = 2

-----------------------------------------------------------------------------
(* Invariants of the sliding-window tiers (specification SpecSW)           *)

\* the values Date.now() takes
Instants == { k * ClockStep : k \in 0..(Horizon \div ClockStep) }

\* the allowed checks of tier t admitted in the trailing window (e - w, e]
AdmittedIn(t, e) ==
  { i \in 1..Len(hist[t]) :
      /\ hist[t][i].res.allowed
      /\ hist[t][i].at > e - Win(t)
      /\ hist[t][i].at <= e }

\* C24: for every sliding-window tier, whatever checkLimit and getStatus
\* calls were made since its construction (or last reset) under a clock that
\* never goes back, the allowed checks admitted in any trailing window
\* (e - window, e] number at most capacity.
C24_WindowExact ==
  \A t \in SWTiers : \A e \in Instants :
    Cardinality(AdmittedIn(t, e)) <= Cap(t)

\* C24 witness: capacity 2 per 3 ms; two admissions at 0, a denial at 2, and
\* at 3, when both have left the window, an admission: the windows ending at
\* 0, 1 and 2 hold two admissions, the one ending at 3 holds one
C24_Witness ==
  \E t \in SWTiers :
    /\ Cap(t) = 2 /\ Win(t) = 3
    /\ Len(hist[t]) = 4
    /\ hist[t][3].at = 2 /\ Denied(hist[t][3])
    /\ hist[t][4].at = 3 /\ hist[t][4].res.allowed
    /\ Cardinality(AdmittedIn(t, 2)) = 2
    /\ Cardinality(AdmittedIn(t, 3)) = 1
    /\ lastCall.op = "getStatus"

\* C26: for every sliding-window tier, right after a checkLimit call (an
\* admission decision) every stored timestamp is > now - window and at most
\* capacity timestamps are stored.
C26_StoredTimestampsInWindow ==
  (lastCall.op = "checkLimit" /\ lastCall.tier \in SWTiers)
    => LET reqs == requests[lastCall.tier]
       IN  /\ \A i \in 1..Len(reqs) : reqs[i] > now - Win(lastCall.tier)
           /\ Len(reqs) <= Cap(lastCall.tier)

\* C26 witness: capacity 3 per 2 ms; admissions at 0, 1, 1 and a check at 2,
\* which drops the timestamp 0 (= now - window) and stores 1, 1, 2
C26_Witness ==
  /\ lastCall.op = "checkLimit"
  /\ lastCall.tier \in SWTiers
  /\ Cap(lastCall.tier) = 3 /\ Win(lastCall.tier) = 2
  /\ now = 2
  /\ requests[lastCall.tier] = <<1, 1, 2>>
  /\ Len(hist[lastCall.tier]) = 4

-----------------------------------------------------------------------------
(* Invariants of the token-bucket tiers (specification SpecTB)             *)

\* C25: for every token-bucket tier, in every state reached by checkLimit,
\* getStatus, reset and clock steps, the token count is not negative and is
\* at most the capacity.
C25_TokensWithinCapacity ==
  \A t \in TBTiers :
    /\ ~ DNegative(tokens[t])
    /\ DGeq(DFromInt(Cap(t)), tokens[t])

\* C25 witness: capacity 2 per 6 ms; one token taken at 0 and getStatus at 7,
\* where 1 + 7/3 tokens are capped at 2
C25_Witness ==
  \E t \in TBTiers :
    /\ Cap(t) = 2
    /\ Len(hist[t]) = 1
    /\ hist[t][1].at = 0
    /\ since[t] = 0
    /\ now = 7
    /\ lastCall.op = "getStatus"
    /\ tokens[t] = DFromInt(2)

\* C25: the lower end is reached: the bucket of one token is empty after a
\* check
C25_EmptyReached ==
  \E t \in TBTiers :
    /\ lastCall.op = "checkLimit"
    /\ lastCall.res.allowed
    /\ tokens[t] = DZero

\* the latest check of tier t recorded
LastCheck(t) == hist[t][Len(hist[t])]

\* the latest check of tier t was denied and the tier was not called at a
\* later instant
AfterDenial(t) ==
  /\ Len(hist[t]) > 0
  /\ Denied(LastCheck(t))
  /\ lastRefill[t] = LastCheck(t).at

\* a step that is a check of tier t following such a denial
RetryOf(t) ==
  /\ AfterDenial(t)
  /\ lastCall'.op = "checkLimit"
  /\ lastCall'.tier = t

\* Math.ceil(window / capacity) in exact arithmetic
CeilOfWindowPerToken(t) == (Win(t) + Cap(t) - 1) \div Cap(t)

\* C27 as stated: a denied token-bucket check reports retryAfter =
\* ceil(1 / refillRate) = ceil(window / capacity); a check issued retryAfter ms
\* after the denial is allowed, and a check issued sooner is denied, whatever
\* amount the bucket held at the denial.  The code violates it: with one
\* request per 161 ms the check made 161 ms after the denial is denied again.
C27_RetryAfterIsTheLeastWait ==
  /\ [](\A t \in TBTiers : \A i \in 1..Len(hist[t]) :
          Denied(hist[t][i])
            => /\ hist[t][i].res.retryAfter = TBRetryAfter(refillRate[t])
               /\ hist[t][i].res.retryAfter = CeilOfWindowPerToken(t))
  /\ [][ \A t \in TBTiers :
           RetryOf(t)
             => /\ now = LastCheck(t).at + LastCheck(t).res.retryAfter
                     => lastCall'.res.allowed
                /\ now < LastCheck(t).at + LastCheck(t).res.retryAfter
                     => ~ lastCall'.res.allowed ]_vars

\* C27, the part that fails in the code on its own: the check issued
\* retryAfter ms after a denial is allowed
C27_WaitIsEnough ==
  [][ \A t \in TBTiers :
        (RetryOf(t) /\ now = LastCheck(t).at + LastCheck(t).res.retryAfter)
          => lastCall'.res.allowed ]_vars

\* C27, what the code ensures: the value reported, Math.ceil of the binary64
\* quotient 1 / refillRate, is ceil(window / capacity) or one more; where retryAfter * refillRate is at least 1 in binary64 the check
\* issued retryAfter ms after the denial is allowed; and a check issued
\* sooner after a denial that left the bucket empty is denied.
C27_WhereRefillReachesOne ==
  /\ [](\A t \in TBTiers : \A i \in 1..Len(hist[t]) :
          Denied(hist[t][i])
            => hist[t][i].res.retryAfter
                 \in {CeilOfWindowPerToken(t), CeilOfWindowPerToken(t) + 1})
  /\ [][ \A t \in TBTiers :
           RetryOf(t)
             => /\ ( /\ now = LastCheck(t).at + LastCheck(t).res.retryAfter
                     /\ DGeq(DMul(refillRate[t], LastCheck(t).res.retryAfter),
                             DFromInt(1)) )
                     => lastCall'.res.allowed
                /\ ( /\ now < LastCheck(t).at + LastCheck(t).res.retryAfter
                     /\ tokens[t] = DZero )
                     => ~ lastCall'.res.allowed ]_vars

\* C27: one request per 161 ms, allowed and denied at 0, denied again at 161
C27_StillDeniedReached ==
  \E t \in TBTiers :
    /\ Win(t) = 161
    /\ Len(hist[t]) = 3
    /\ Denied(hist[t][2])
    /\ hist[t][2].res.retryAfter = 161
    /\ hist[t][3].at = 161
    /\ Denied(hist[t][3])
    /\ lastCall.op = "checkLimit"

\* C27: capacity 2 per 6 ms, a denial at 2 reporting 3 ms, and the check made
\* 1 ms later allowed
C27_SoonerReached ==
  \E t \in TBTiers :
    /\ Len(hist[t]) = 4
    /\ hist[t][3].at = 2
    /\ Denied(hist[t][3])
    /\ hist[t][3].res.retryAfter = 3
    /\ hist[t][4].at = 3
    /\ hist[t][4].res.allowed
    /\ lastCall.op = "checkLimit"

\* exactly n further checks of tier t would be allowed at this instant
FurtherAllowed(t, n) ==
  /\ AllowsAtOnce(Limiters, t, n)
  /\ ~ AllowsAtOnce(Limiters, t, n + 1)

\* C28: right after a token-bucket check, `remaining` is not negative; if the
\* check was allowed it is the floor of the tokens left after one was taken,
\* and that many further checks, and no more, would be allowed at the same
\* instant; if the check was denied it is 0.
C28_RemainingIsFloorOfTokensLeft ==
  (lastCall.op = "checkLimit" /\ lastCall.tier \in TBTiers)
    => /\ lastCall.res.remaining >= 0
       /\ IF lastCall.res.allowed
            THEN /\ lastCall.res.remaining = DFloor(tokens[lastCall.tier])
                 /\ FurtherAllowed(lastCall.tier, lastCall.res.remaining)
            ELSE lastCall.res.remaining = 0

\* C28 witness: capacity 3 per 6 ms, emptied at 0; the check at 5 finds 2.5
\* tokens, leaves 1.5 and reports remaining 1
C28_Witness ==
  /\ lastCall.op = "checkLimit"
  /\ lastCall.tier \in TBTiers
  /\ Cap(lastCall.tier) = 3
  /\ now = 5
  /\ lastCall.res.allowed
  /\ lastCall.res.remaining = 1
  /\ tokens[lastCall.tier] # DFromInt(1)
  /\ DGeq(tokens[lastCall.tier], DFromInt(1))
  /\ Len(hist[lastCall.tier]) = 4

-----------------------------------------------------------------------------
(* Claims about what the cache serves and holds (specification SpecCache)  *)

\* this step is a call get(k)
GetStep(k) == lastOp'.op = "get" /\ lastOp'.key = k /\ ncalls' = ncalls + 1

\* the ttl argument of the set that stored `entry`: the ttl stored, or 0 when
\* the default was stored (no ttl in Ttls equals defaultTtl)
GivenTtl(entry) == IF entry.ttl = options.defaultTtl THEN 0 ELSE entry.ttl

\* what get(k) is to return when the entry stored under k, if any, is served
\* up to and including the instant timestamp + ttl
Served(k, ttlOf(_)) ==
  IF k \in DOMAIN cache /\ now <= cache[k].timestamp + ttlOf(cache[k])
    THEN cache[k].data
    ELSE Null

\* C29 as stated, with ttl the argument of set: get(k) returns the value of
\* the latest set(k, v, ttl) still stored exactly when now <= s + ttl.  It
\* fails for set(k, v, 0), whose value is served for defaultTtl ms.
C29_ServedWithinGivenTtl ==
  [][ \A k \in Keys : GetStep(k) => lastOp'.res = Served(k, GivenTtl) ]_vars

\* C29: get(k) returns a value exactly when an entry is stored under k (the
\* latest set(k, v, ttl) was not followed by a delete, a clear, an eviction
\* or an expiry removal of k) and now <= s + t, with s the time of that set
\* and t its ttl, or defaultTtl if the ttl was 0 or left out; the value
\* returned is then that v, and no entry is stored under k after a miss.
C29_NeverServesExpired ==
  [][ \A k \in Keys :
        GetStep(k)
          => /\ lastOp'.res = Served(k, LAMBDA entry : entry.ttl)
             /\ lastOp'.res = Null => k \notin DOMAIN cache'
             /\ (k \in DOMAIN cache /\ cache[k].ttl # options.defaultTtl)
                  => lastOp'.res = Served(k, GivenTtl) ]_vars

\* C29 witness: set(k, v, 1) and get(k) 1 ms later, at now = s + ttl: a hit
C29_Witness ==
  /\ lastOp.op = "get"
  /\ lastOp.res # Null
  /\ lastOp.was.stored
  /\ lastOp.was.ttl = 1
  /\ now = lastOp.was.timestamp + 1
  /\ cache[lastOp.key].data = lastOp.res

\* C29: set(k, v, 1) and get(k) 2 ms later: a miss
C29_LateMissReached ==
  /\ lastOp.op = "get"
  /\ lastOp.res = Null
  /\ lastOp.was.stored
  /\ lastOp.was.ttl = 1
  /\ now = lastOp.was.timestamp + 2

\* C29: set(k, v, 0) and get(k) 1 ms later: a hit
C29_ZeroTtlServedReached ==
  /\ lastOp.op = "get"
  /\ lastOp.res # Null
  /\ lastOp.was.ttl = options.defaultTtl
  /\ now = lastOp.was.timestamp + 1

\* this step is a call set(k, ...)
SetStep == lastOp'.op = "set" /\ ncalls' = ncalls + 1

\* C30 as stated: size() never exceeds maxSize, and a set of a new key at
\* capacity removes exactly one entry.  The code violates it: evictLRU
\* removes nothing when the least recently used key is the empty string.
C30_SizeWithinMaxSize ==
  /\ Size <= options.maxSize
  /\ (lastOp.op = "set" /\ lastOp.full) => Cardinality(lastOp.evicted) = 1

\* C30, what the code ensures: no call other than set makes the cache
\* larger; a set made while size() <= maxSize leaves size() <= maxSize and,
\* for a new key at capacity, removes exactly the least recently used entry,
\* unless the least recently used key is "".
C30_ForNonEmptyKeys ==
  [][ IF SetStep
        THEN (Size <= options.maxSize
                /\ (lastOp'.full => LRUKey(accessOrder) # ""))
               => /\ Cardinality(DOMAIN cache') <= options.maxSize
                  /\ lastOp'.full
                       => /\ lastOp'.evicted = {LRUKey(accessOrder)}
                          /\ Cardinality(DOMAIN cache') = Size
        ELSE Cardinality(DOMAIN cache') <= Size ]_vars

\* C30: maxSize 1, set("", v) and then set(k, v'): two entries
C30_OverfullReached ==
  /\ options.maxSize = 1
  /\ Size = 2
  /\ lastOp.op = "set"
  /\ lastOp.full
  /\ lastOp.evicted = {}
  /\ "" \in DOMAIN cache

\* C30: for keys that are not empty, the set of a new key at capacity
C30_EvictionReached ==
  /\ options.maxSize = 2
  /\ Size = 2
  /\ lastOp.op = "set"
  /\ lastOp.full
  /\ Cardinality(lastOp.evicted) = 1
  /\ "" \notin lastOp.evicted

-----------------------------------------------------------------------------
(* Claims about the statistics, the sweep and the life cycle of the cache  *)
(* (specifications SpecLife, SpecCache)                                    *)

\* this step is a call of the operation op on the cache
CallOf(op) == ncalls' = ncalls + 1 /\ lastOp'.op = op

\* this step is a call on the cache, or the sweep
AnyCall == ncalls' = ncalls + 1

\* the counters of get
Counters == <<stats.hits, stats.misses, stats.totalRequests>>

\* C31: hits + misses = totalRequests in every state; every get adds one to
\* totalRequests and one to exactly one of hits and misses (to misses when
\* nothing is returned, also for an entry found expired); resetStats zeroes
\* the three counters; no other call (set, has, delete, clear, updateConfig,
\* destroy, the sweep) changes them.
C31_CountersFollowGets ==
  /\ [](stats.hits + stats.misses = stats.totalRequests)
  /\ [][ AnyCall =>
           IF lastOp'.op = "get"
             THEN /\ stats'.totalRequests = stats.totalRequests + 1
                  /\ IF lastOp'.res = Null
                       THEN /\ stats'.misses = stats.misses + 1
                            /\ stats'.hits = stats.hits
                       ELSE /\ stats'.hits = stats.hits + 1
                            /\ stats'.misses = stats.misses
             ELSE IF lastOp'.op = "resetStats"
               THEN Counters' = <<0, 0, 0>>
               ELSE Counters' = Counters ]_vars

\* C31 witness: set(k, v, 1), a hit at once, and 2 ms later a get that finds
\* the entry expired and counts a miss
C31_Witness ==
  /\ lastOp.op = "get"
  /\ Elapsed(lastOp.was)
  /\ Counters = <<1, 1, 2>>

\* C31: the counters back at zero after resetStats, with an entry stored
C31_ResetReached ==
  /\ lastOp.op = "resetStats"
  /\ ncalls = 3
  /\ Counters = <<0, 0, 0>>
  /\ Size = 1

\* the keys stored whose entry has now > timestamp + ttl
ExpiredKeys == { k \in DOMAIN cache : now > cache[k].timestamp + cache[k].ttl }

\* C32: one run of the sweep removes exactly the entries with now > timestamp
\* + ttl: no expired entry is stored afterwards, every other entry keeps its
\* value, ttl, timestamp, access number and place in the recency order, and
\* the counters of get are unchanged.
C32_SweepRemovesExactlyTheExpired ==
  [][ CallOf("cleanup")
        => /\ DOMAIN cache' = DOMAIN cache \ ExpiredKeys
           /\ ExpiredKeys' = {}
           /\ \A k \in DOMAIN cache' :
                cache'[k] = cache[k] /\ accessOrder'[k] = accessOrder[k]
           /\ DOMAIN accessOrder' = DOMAIN cache'
           /\ recency' = SelectSeq(recency, LAMBDA k : k \notin ExpiredKeys)
           /\ accessCounter' = accessCounter
           /\ Counters' = Counters ]_vars

\* C32 witness: set(a, v, 1) and set(b, v) at 0, the sweep at 2: a is removed,
\* b (ttl 2) stays
C32_Witness ==
  /\ lastOp.op = "cleanup"
  /\ ncalls = 3
  /\ now = 2
  /\ DOMAIN cache = {"b"}
  /\ cache["b"].timestamp = 0
  /\ accessOrder["b"] = 2
  /\ recency = <<"b">>

\* mutant of Swept: the sweep removes nothing
Swept_Nothing(f) == f

\* lines 228-231: a Map of the cache after the sweep deleted the expired keys
Swept(f) == [k \in DOMAIN f \ ExpiredKeys |-> f[k]]

\* lines 49-51 and 217-235: the interval timer fires, however many calls
\* were made on the cache before, and cleanup() finds expired entries (a run
\* that finds none changes nothing)
TimerFires ==
  /\ UNCHANGED notCache
  /\ intervals # {}
  /\ ExpiredKeys # {}
  /\ cache' = Swept(cache)
  /\ accessOrder' = Swept(accessOrder)
  /\ stats' = [stats EXCEPT !.cacheSize = Cardinality(DOMAIN cache')]
  /\ recency' = StillIn(recency, cache')
  /\ lastOp' = [op |-> "cleanup"]
  /\ fill' = Spoiled
  /\ UNCHANGED <<options, now, accessCounter, ncalls, cleanupTimer, intervals,
                 destroyed, wrapped>>

\* the callers' operations on a cache whose sweep is left to its timer
SweepNext ==
  \/ \E k \in LifeKeys : Get(k) /\ UNCHANGED wrapped
  \/ \E k \in LifeKeys, v \in LifeValues, ttl \in Ttls :
       Set(k, v, ttl) /\ UNCHANGED wrapped
  \/ \E k \in LifeKeys : Delete(k) /\ UNCHANGED wrapped
  \/ \E k \in LifeKeys : Has(k) /\ UNCHANGED wrapped
  \/ Clear /\ UNCHANGED wrapped
  \/ CacheAdvance /\ UNCHANGED wrapped
  \/ TimerFires

\* setInterval keeps firing while the event loop runs: the sweep is not
\* postponed for ever; nothing is assumed of the callers
SpecSweep == InitCache /\ [][SweepNext]_vars /\ WF_vars(TimerFires)

\* this step is a run of the sweep
SweepStep == lastOp'.op = "cleanup" /\ lastOp.op # "cleanup"

C33_NoSweepReached ==
  /\ options.cleanupInterval = 0
  /\ intervals = {}
  /\ ExpiredKeys # {}
  /\ ncalls = MaxCalls

\* the fields of the cache
Fields ==
  <<options, cache, accessOrder, accessCounter, stats, cleanupTimer, intervals>>

\* C34: after destroy() the cache has no active interval timer, and never has
\* one again, so that no sweep runs; right after destroy() the store is
\* empty; a destroy() that follows a destroy() changes no field of the cache,
\* however often it is repeated.
C34_DestroyIsIdempotent ==
  /\ [](destroyed => intervals = {} /\ cleanupTimer = 0)
  /\ [](lastOp.op = "destroy" => cache = <<>> /\ accessOrder = <<>> /\ Size = 0)
  /\ [][ destroyed => ~ CallOf("cleanup") ]_vars
  /\ [][ (CallOf("destroy") /\ lastOp.op = "destroy") => Fields' = Fields ]_vars

\* C34 witness: a cache constructed with a sweep, destroyed and destroyed again
C34_Witness ==
  /\ lastOp.op = "destroy"
  /\ lastOp.again
  /\ options.cleanupInterval > 0
  /\ accessCounter = 0
  /\ ncalls = 3

-----------------------------------------------------------------------------
(* C35: the decorator `cached`                                             *)

\* the step is a call of the wrapped method with the cache key k
CachedStep(k) ==
  lastOp'.op = "get" /\ lastOp'.key = k /\ ncalls' = ncalls + 1

\* the step invokes the original method
InvokesMethod == wrapped'.invoked = wrapped.invoked + 1

\* the step is the resolution of an awaited invocation
ResolveStep ==
  lastOp'.op = "set" /\ ncalls' = ncalls + 1
    /\ Len(wrapped'.pending) = Len(wrapped.pending) - 1

\* the step is the rejection of an awaited invocation
RejectStep ==
  ncalls' = ncalls /\ Len(wrapped'.pending) = Len(wrapped.pending) - 1

\* the cache holds an entry for k that has not expired: get(k) is a hit
LiveEntry(k) == k \in DOMAIN cache /\ ~Expired(cache[k], now)

\* C35 (as stated): the original method is invoked exactly when cache.get(key)
\* is a miss, that is when the cache holds no live entry for the key and get
\* counts a miss; a hit returns the cached value without invoking it.
C35_InvokedExactlyOnMiss ==
  [][\A k \in LifeKeys :
       CachedStep(k) =>
         /\ InvokesMethod <=> ~LiveEntry(k)
         /\ InvokesMethod <=> stats'.misses = stats.misses + 1
         /\ LiveEntry(k) =>
              /\ wrapped'.last = [step |-> "hit", key |-> k,
                                  res |-> cache[k].data]
              /\ wrapped'.pending = wrapped.pending]_vars

\* C35 (what the code ensures): a call of the wrapped method invokes the
\* original method exactly when cache.get(key) returned null, which is when
\* the cache holds no live entry for the key or the live entry holds null;
\* otherwise it returns the stored value and invokes nothing.  Nothing else
\* invokes the method.  The cache is written by the decorator only when an
\* invocation resolves, with the result and the decorator's ttl under the
\* call's key; when the invocation rejects, the call rejects and the cache,
\* its recency order and its counters are left as they were.
C35_InvokedWhenGetReturnsNull ==
  [][/\ \A k \in LifeKeys :
         CachedStep(k) =>
           /\ InvokesMethod <=> lastOp'.res = Null
           /\ InvokesMethod <=> (~LiveEntry(k) \/ cache[k].data = Null)
           /\ InvokesMethod => /\ wrapped'.pending = Append(wrapped.pending, k)
                         /\ wrapped'.last.step = "invoked"
           /\ ~InvokesMethod => /\ wrapped'.last = [step |-> "hit", key |-> k,
                                              res |-> cache[k].data]
                          /\ wrapped'.pending = wrapped.pending
                          /\ cache' = cache
     /\ InvokesMethod => \E k \in LifeKeys : CachedStep(k)
     /\ lastOp'.op = "set" /\ ncalls' = ncalls + 1 => ResolveStep
     /\ ResolveStep =>
          /\ wrapped'.last.step = "stored"
          /\ \E i \in 1..Len(wrapped.pending) :
               wrapped.pending[i] = wrapped'.last.key
          /\ cache'[wrapped'.last.key] =
               [data |-> wrapped'.last.res, timestamp |-> now,
                ttl |-> EffectiveTtl(wrapped.ttl)]
          /\ ~InvokesMethod
     /\ RejectStep =>
          /\ wrapped'.last.step = "threw"
          /\ cache' = cache /\ accessOrder' = accessOrder
          /\ accessCounter' = accessCounter /\ stats' = stats
          /\ ~InvokesMethod]_vars

\* a call found a live entry holding null and invoked the method once more
C35_NullInvokedAgainReached ==
  /\ lastOp.op = "get" /\ lastOp.was.stored
  /\ lastOp.key \in DOMAIN cache /\ cache[lastOp.key].data = Null
  /\ ~Expired(cache[lastOp.key], now)
  /\ wrapped.last.step = "invoked" /\ wrapped.invoked = 2
  /\ stats.hits = 1 /\ stats.misses = 1

\* a call returned the value a resolved invocation had stored
C35_HitReached ==
  /\ wrapped.last.step = "hit" /\ wrapped.last.res = "v1"
  /\ wrapped.invoked = 1 /\ wrapped.pending = <<>>

\* an invocation rejected and nothing was stored
C35_RejectionReached ==
  /\ wrapped.last.step = "threw" /\ wrapped.invoked = 1
  /\ cache = <<>> /\ stats.misses = 1

-----------------------------------------------------------------------------
(* C36: the rate a token bucket admits (specification SpecTB)              *)

\* the checks of tier t, from the i-th to the j-th, that were allowed
AllowedFromTo(t, i, j) == { k \in i..j : hist[t][k].res.allowed }

\* C36: for every token-bucket tier and every run of checks since its
\* construction or reset, the checks allowed within a time interval of length
\* L ms are at most capacity + floor(L * capacity / window): between any two
\* allowed checks, L ms apart, no more than that many were allowed.
C36_AllowedWithinRate ==
  \A t \in TBTiers :
    \A i, j \in 1..Len(hist[t]) :
      (i <= j /\ hist[t][i].res.allowed /\ hist[t][j].res.allowed) =>
        Cardinality(AllowedFromTo(t, i, j)) <=
          Cap(t) + ((hist[t][j].at - hist[t][i].at) * Cap(t)) \div Win(t)

\* C36 witness: capacity 2 per 6 ms; two checks allowed at 0, a third denied
\* at 2, a fourth allowed at 3: three allowed within 3 ms, the bound itself
C36_Witness ==
  \E t \in TBTiers :
    /\ Cap(t) = 2 /\ Win(t) = 6
    /\ Len(hist[t]) = 4
    /\ hist[t][1].at = 0 /\ hist[t][1].res.allowed
    /\ hist[t][2].at = 0 /\ hist[t][2].res.allowed
    /\ hist[t][3].at = 2 /\ ~ hist[t][3].res.allowed
    /\ hist[t][4].at = 3 /\ hist[t][4].res.allowed

-----------------------------------------------------------------------------
(* C37: the per-attempt timeout timers (specification SpecExec)            *)

\* the call has resolved or rejected
Settled == pc \in {"resolved", "rejected"}

\* C37 (as stated): at the moment a call resolves or rejects, no per-attempt
\* timeout timer created by that call is still pending.
C37_NoTimerLeftBehind == Settled => timers = {}

\* C37 (what the code ensures): a pending timer is that of the attempt whose
\* fetch is awaited, or that of an earlier attempt whose fetch rejected with a
\* network error (clearTimeout, line 617, is skipped by the rejection); so
\* after success, 4xx, 5xx, an unreadable body or timeout on every attempt no
\* timer is pending when the call settles.  The timer of attempt i aborts the
\* controller of attempt i only: when it fires for an attempt that is over,
\* the call's position, errors, outcomes and result are left as they were.
C37_OnlyNetworkFailuresLeaveTimers ==
  /\ \A i \in timers :
       \/ i = attempt /\ pc = "fetch"
       \/ i < Len(outcomes) /\ outcomes[i + 1] = "network"
  /\ Settled =>
       \A i \in 0..attempt :
         (i < Len(outcomes) /\ outcomes[i + 1] # "network") => i \notin timers

\* C37: a timer of an attempt other than the one in flight fires without
\* effect on the call
C37_StaleTimerAbortsNothing ==
  [][\A i \in timers :
       (i \notin timers' /\ ~ (i = attempt /\ pc = "fetch")) =>
         UNCHANGED <<pc, attempt, lastError, outcomes, waits, thrown, result,
                     invocations>>]_vars

\* the call rejected after the network error of its only attempt, whose
\* timer is still pending
C37_PendingAtRejectionReached ==
  /\ pc = "rejected" /\ retries = 0 /\ timers = {0}
  /\ outcomes = <<"network">>

\* the call resolved on its second attempt while the timer of the first,
\* whose fetch rejected, is still pending
C37_PendingAtSuccessReached ==
  /\ pc = "resolved" /\ attempt = 1 /\ timers = {0}
  /\ outcomes = <<"network", "ok">>

\* the timer of the first attempt fired while the second was in flight, and
\* the second then succeeded
C37_StaleTimerFiredReached ==
  /\ pc = "resolved" /\ attempt = 1 /\ timers = {}
  /\ outcomes = <<"network", "ok">>

-----------------------------------------------------------------------------
(* C38: stats.cacheSize and size() (specification SpecLife)                *)

\* getStats().cacheSize equals size()
SizeReported == stats.cacheSize = Cardinality(DOMAIN cache)

\* the step is an updateConfig call that lowers maxSize below size()
ShrinkingUpdate ==
  /\ CallOf("updateConfig")
  /\ Cardinality(DOMAIN cache) > options'.maxSize

\* C38 (as stated): the cacheSize reported by getStats() equals size() after
\* every public operation of the cache.
C38_CacheSizeIsSize == SizeReported

\* C38 (what the code ensures): every call other than an updateConfig that
\* lowers maxSize below size(), made while cacheSize equals size(), leaves
\* them equal; set, clear, resetStats and destroy make them equal whatever
\* they were; an updateConfig that evicts leaves cacheSize at the size before
\* the eviction.
C38_SizeReportedButAfterShrinking ==
  [][/\ (SizeReported /\ ~ ShrinkingUpdate) => SizeReported'
     /\ (AnyCall /\ lastOp'.op \in {"set", "clear", "resetStats", "destroy"})
          => SizeReported'
     /\ ShrinkingUpdate =>
          /\ stats'.cacheSize = stats.cacheSize
          /\ Cardinality(DOMAIN cache') = options'.maxSize]_vars

\* a and b stored, then updateConfig({maxSize: 1}): one entry, cacheSize 2
C38_StaleSizeReached ==
  /\ lastOp.op = "updateConfig"
  /\ options.maxSize = 1
  /\ Cardinality(DOMAIN cache) = 1
  /\ stats.cacheSize = 2

\* resetStats with an entry stored reports its size
C38_ResetReached ==
  /\ lastOp.op = "resetStats"
  /\ Cardinality(DOMAIN cache) = 1
  /\ stats.cacheSize = 1

-----------------------------------------------------------------------------
(* C39: the sweep timer of a cache (specification SpecLife)                *)

\* the cache should be swept: its interval is positive and it is not destroyed
SweepWanted == options.cleanupInterval > 0 /\ ~ destroyed

\* C39 (as stated): a cache has exactly one active sweep timer whenever its
\* current cleanupInterval is > 0 and it has not been destroyed, and none
\* otherwise.
C39_OneTimerIffIntervalSet ==
  Cardinality(intervals) = (IF SweepWanted THEN 1 ELSE 0)

\* C39 (what the code ensures): a cache never has two active sweep timers, and
\* an active one is the one whose handle it holds; it has none when its
\* cleanupInterval is 0 or it was destroyed; it has exactly one when its
\* cleanupInterval is > 0 and it holds a handle, which is the case from a
\* construction with cleanupInterval > 0 until destroy.
C39_AtMostOneTimer ==
  /\ Cardinality(intervals) <= 1
  /\ intervals \subseteq {cleanupTimer}
  /\ ~ SweepWanted => intervals = {}
  /\ (SweepWanted /\ cleanupTimer # 0) => intervals = {cleanupTimer}
  /\ destroyed => cleanupTimer = 0

\* constructed with cleanupInterval 0, then updateConfig({cleanupInterval: 1}):
\* no timer runs
C39_NotStartedReached ==
  /\ lastOp.op = "updateConfig"
  /\ "cleanupInterval" \in DOMAIN lastOp.given
  /\ SweepWanted
  /\ intervals = {}
  /\ cleanupTimer = 0

\* a timer stopped by updateConfig({cleanupInterval: 0}) was started again by
\* a later updateConfig, as a new timer
C39_RestartedReached ==
  /\ lastOp.op = "updateConfig"
  /\ SweepWanted
  /\ cleanupTimer > 1
  /\ intervals = {cleanupTimer}
  /\ ncalls >= 2

====
